---- MODULE Spec2Model ----
(***************************************************************************)
(* compact-json: the Formatter of src/src/compact_json/formatter.py.       *)
(*                                                                         *)
(* Text is a sequence of one-character strings, so that widths, padding,   *)
(* number re-quantization, trailing-whitespace stripping and re-parsing    *)
(* are computed character by character.  Only ASCII text is modelled, so   *)
(* str_len is the number of characters (the east-Asian width table of      *)
(* wcwidth is outside the model) and ensure_ascii has no effect.           *)
(***************************************************************************)
EXTENDS Integers, Sequences, FiniteSets, TLC

(***************************************************************************)
(* Bounds of the model.                                                    *)
(***************************************************************************)
\* attribute assignments made to one Formatter object
MaxSets == 2
\* the nesting of the deepest input: a list in a list in a list ...
DeepNesting == 500

(***************************************************************************)
(* Generic helpers on character sequences.                                 *)
(***************************************************************************)
\* a value under a name: Body applied to it (a local variable of the code)
With(value, Body(_)) == Body(value)

\* Python's s * n
Repeat(s, n) == [i \in 1..(n * Len(s)) |-> s[((i - 1) % Len(s)) + 1]]

Max(a, b) == IF a >= b THEN a ELSE b

\* the first index of c in s, 0 when there is none
IndexOf(s, c) ==
    With({i \in 1..Len(s) : s[i] = c}, LAMBDA at :
       IF at = {} THEN 0 ELSE CHOOSE i \in at : \A j \in at : i <= j)

Contains(s, c) == IndexOf(s, c) # 0

DigitChars == <<"0", "1", "2", "3", "4", "5", "6", "7", "8", "9">>
IsDigit(c) == \E i \in 1..10 : DigitChars[i] = c

RECURSIVE NatToChars(_)
NatToChars(n) ==
    IF n < 10 THEN <<DigitChars[n + 1]>>
    ELSE NatToChars(n \div 10) \o <<DigitChars[(n % 10) + 1]>>

\* str.ljust / str.rjust of Python: pad with spaces up to width, never cut
ljust(s, width) == s \o Repeat(<<" ">>, width - Len(s))
rjust(s, width) == Repeat(<<" ">>, width - Len(s)) \o s

(***************************************************************************)
(* Input values (what json.load or a Python caller hands to serialize).    *)
(* An int is held as its decimal digits and a float as its repr, the text  *)
(* json.dumps emits for it; a dict is its sequence of (key, value) pairs   *)
(* in iteration order, with keys that may be str, int or Enum members.     *)
(***************************************************************************)
VNull == [k |-> "null"]
VBool(b) == [k |-> "bool", b |-> b]
VInt(lit) == [k |-> "int", lit |-> lit]
VFloat(lit) == [k |-> "float", lit |-> lit]
VStr(s) == [k |-> "str", s |-> s]
VList(items) == [k |-> "list", items |-> items]
VDict(items) == [k |-> "dict", items |-> items]
\* leaf wrapped in n one-element lists, [[...[leaf]...]], held by its depth
VNested(n, leaf) == [k |-> "nested", n |-> n, leaf |-> leaf]

KStr(s) == [t |-> "str", s |-> s]
KInt(lit) == [t |-> "int", s |-> lit]
KEnum(v) == [t |-> "enum", v |-> v]
Prop(key, val) == [key |-> key, val |-> val]

\* json.dumps of a str: quotes around it, '"' and '\' escaped
RECURSIVE EscapeStr(_)
EscapeStr(s) ==
    IF s = <<>> THEN <<>>
    ELSE (IF Head(s) = "\"" \/ Head(s) = "\\" THEN <<"\\", Head(s)>> ELSE <<Head(s)>>)
         \o EscapeStr(Tail(s))

\* json.dumps of a str that forgets to escape '"' and '\'
dumps_str_unescaped(s) == <<"\"">> \o s \o <<"\"">>

dumps_str(s) == <<"\"">> \o EscapeStr(s) \o <<"\"">>

\* json.dumps(element) for an element that is neither list nor dict
json_dumps(element) ==
    CASE element.k = "null" -> <<"n", "u", "l", "l">>
      [] element.k = "bool" -> IF element.b THEN <<"t", "r", "u", "e">>
                               ELSE <<"f", "a", "l", "s", "e">>
      [] element.k = "int" -> element.lit
      [] element.k = "float" -> element.lit
      [] element.k = "str" -> dumps_str(element.s)

str_len(s) == Len(s)

(***************************************************************************)
(* class FormattedNode                                                     *)
(***************************************************************************)
FormattedNode ==
    [name |-> <<>>, name_length |-> 0, value |-> <<>>, value_length |-> 0,
     complexity |-> 0, depth |-> 0, kind |-> "UNDEFINED", format |-> "INLINE",
     children |-> <<>>]

\* FormattedNode.cleanup
cleanup(node) ==
    With(IF node.format # "INLINE" THEN <<>> ELSE node.children, LAMBDA kept :
       [node EXCEPT !.children =
            [i \in 1..Len(kept) |-> [kept[i] EXCEPT !.children = <<>>]]])

(***************************************************************************)
(* _fixed_value: Decimal(value).quantize(10^-num_decimals) as text.        *)
(* The result is [v |-> text, warn |-> whether the InvalidOperation        *)
(* fallback was taken].                                                    *)
(***************************************************************************)
DecimalPrec == 28

AllDigits(s) == \A i \in 1..Len(s) : IsDigit(s[i])

\* the digits without leading zeros, the last digit always kept
StripZeros(s) ==
    With({i \in 1..Len(s) : s[i] # "0" \/ i = Len(s)}, LAMBDA keep :
       IF s = <<>> THEN s
       ELSE SubSeq(s, CHOOSE i \in keep : \A j \in keep : i <= j, Len(s)))

\* the literals Decimal() accepts among the texts json.dumps produces
\* without an exponent: [-]digits[.digits]
DecimalParts(value) ==
    With(value # <<>> /\ Head(value) = "-", LAMBDA neg :
    With(IF neg THEN Tail(value) ELSE value, LAMBDA body :
    With(IndexOf(body, "."), LAMBDA dot :
    With(IF dot = 0 THEN body ELSE SubSeq(body, 1, dot - 1), LAMBDA whole :
    With(IF dot = 0 THEN <<>> ELSE SubSeq(body, dot + 1, Len(body)), LAMBDA frac :
       [ok |-> body # <<>> /\ whole \o frac # <<>> /\ AllDigits(whole) /\ AllDigits(frac),
        neg |-> neg, whole |-> whole, frac |-> frac])))))

RECURSIVE CharsToNat(_, _)
CharsToNat(s, acc) ==
    IF s = <<>> THEN acc
    ELSE CharsToNat(Tail(s), 10 * acc + (IndexOf(DigitChars, Head(s)) - 1))

\* ROUND_HALF_EVEN of the coefficient digits to `keep` digits
RoundHalfEven(digits, keep) ==
    With(CharsToNat(SubSeq(digits, 1, keep), 0), LAMBDA kept :
    With(SubSeq(digits, keep + 1, Len(digits)), LAMBDA rest :
    With(IndexOf(DigitChars, Head(rest)) - 1, LAMBDA first :
    With(StripZeros(Tail(rest) \o <<"0">>) = <<"0">>, LAMBDA tailzero :
    With(first > 5 \/ (first = 5 /\ (~tailzero \/ kept % 2 = 1)), LAMBDA up :
       NatToChars(IF up THEN kept + 1 ELSE kept))))))

_fixed_value(value, num_decimals) ==
    IF Contains(value, "e") THEN [v |-> value, warn |-> FALSE]
    ELSE With(DecimalParts(value), LAMBDA d :
         With(IF num_decimals > 0 THEN num_decimals ELSE 0, LAMBDA n :
         With(IF d.whole = <<>> THEN <<"0">> ELSE d.whole, LAMBDA whole :
         With(IF Len(d.frac) <= n
              THEN whole \o d.frac \o Repeat(<<"0">>, n - Len(d.frac))
              ELSE RoundHalfEven(whole \o d.frac, Len(whole) + n), LAMBDA all :
         With(StripZeros(all), LAMBDA coeff :
         With(IF d.neg THEN <<"-">> ELSE <<>>, LAMBDA sign :
         With(Repeat(<<"0">>, n + 1 - Len(all)) \o all, LAMBDA padded :
         With(StripZeros(SubSeq(padded, 1, Len(padded) - n)), LAMBDA intpart :
         With(SubSeq(padded, Len(padded) - n + 1, Len(padded)), LAMBDA fracpart :
            IF ~d.ok \/ Len(coeff) > DecimalPrec
            THEN [v |-> value, warn |-> TRUE]
            ELSE IF coeff = <<"0">> /\ n > 6
            THEN [v |-> sign \o <<"0", "E", "-">> \o NatToChars(n), warn |-> FALSE]
            ELSE [v |-> sign \o intpart
                        \o (IF n > 0 THEN <<".">> \o fracpart ELSE <<>>),
                  warn |-> FALSE])))))))))

(***************************************************************************)
(* class ColumnStats                                                       *)
(***************************************************************************)
ColumnStats(dont_justify) ==
    [dont_justify |-> dont_justify, prop_name |-> <<>>, prop_name_length |-> 0,
     order_sum |-> 0, count |-> 0, _max_value_size |-> 0, kind |-> "NULL",
     chars_before_dec |-> 0, chars_after_dec |-> 0]

\* prop_node.value.split(".") of ColumnStats.update
SplitDot(value) ==
    With(IndexOf(value, "."), LAMBDA dot :
       IF dot = 0 THEN [whole |-> value, frac |-> <<>>]
       ELSE [whole |-> SubSeq(value, 1, dot - 1),
             frac |-> SubSeq(value, dot + 1, Len(value))])

\* a unified kind that does not take int and float cells for one float column
update_kind_exact(kind, cell_kind) ==
    IF kind = "NULL" THEN cell_kind
    ELSE IF kind # cell_kind THEN "UNDEFINED"
    ELSE kind

\* the unified kind of a column after one more cell
update_kind(kind, cell_kind) ==
    IF kind = "NULL" THEN cell_kind
    ELSE IF (kind = "FLOAT" /\ cell_kind = "INT") \/ (kind = "INT" /\ cell_kind = "FLOAT")
    THEN "FLOAT"
    ELSE IF kind # cell_kind THEN "UNDEFINED"
    ELSE kind

\* ColumnStats.update
update(cs, prop_node, index) ==
    With(SplitDot(prop_node.value), LAMBDA parts :
       [cs EXCEPT
          !.order_sum = cs.order_sum + index,
          !.count = cs.count + 1,
          !._max_value_size = Max(cs._max_value_size, prop_node.value_length),
          !.kind = update_kind(cs.kind, prop_node.kind),
          !.chars_after_dec =
              IF prop_node.kind = "FLOAT" THEN Max(cs.chars_after_dec, Len(parts.frac))
              ELSE cs.chars_after_dec,
          !.chars_before_dec =
              IF prop_node.kind = "FLOAT" THEN Max(cs.chars_before_dec, Len(parts.whole))
              ELSE IF prop_node.kind = "INT"
              THEN Max(cs.chars_before_dec, Len(prop_node.value))
              ELSE cs.chars_before_dec])

\* ColumnStats.max_value_size (the property)
max_value_size(cs) ==
    IF cs.dont_justify THEN cs._max_value_size
    ELSE IF cs.kind = "FLOAT" THEN cs.chars_before_dec + cs.chars_after_dec + 1
    ELSE IF cs.kind = "INT" THEN cs.chars_before_dec
    ELSE cs._max_value_size

\* ColumnStats.format_value; [v |-> text, warn |-> quantize error handled]
format_value(cs, value, value_length) ==
    IF cs.kind \in {"FLOAT", "INT"} /\ ~cs.dont_justify
    THEN With(_fixed_value(value, cs.chars_after_dec), LAMBDA adjusted :
         With(cs.chars_before_dec + cs.chars_after_dec
              + (IF cs.chars_after_dec > 0 THEN 1 ELSE 0), LAMBDA total_length :
            [v |-> rjust(adjusted.v, total_length), warn |-> adjusted.warn]))
    ELSE [v |-> ljust(value, max_value_size(cs) - (value_length - Len(value))),
          warn |-> FALSE]

(***************************************************************************)
(* class Formatter.  `self` is the Formatter object (its dataclass fields  *)
(* and the intermediate fields of __post_init__/init_internals).  What a   *)
(* call changes as it goes is threaded through the operators as `st`:      *)
(* self.indent_cache, the warnings emitted so far, and the log of the      *)
(* nodes format_element has returned.                                      *)
(***************************************************************************)
IsInline(format) == format \in {"INLINE", "INLINE_TABULAR"}

RECURSIVE SumValueLength(_)
SumValueLength(nodes) ==
    IF nodes = <<>> THEN 0 ELSE Head(nodes).value_length + SumValueLength(Tail(nodes))

RECURSIVE SumNameLength(_)
SumNameLength(nodes) ==
    IF nodes = <<>> THEN 0 ELSE Head(nodes).name_length + SumNameLength(Tail(nodes))

RECURSIVE MaxNameLength(_)
MaxNameLength(nodes) ==
    IF nodes = <<>> THEN 0 ELSE Max(Head(nodes).name_length, MaxNameLength(Tail(nodes)))

\* the complexity of the last child taken for the maximum
LastComplexity(nodes) == IF nodes = <<>> THEN 0 ELSE nodes[Len(nodes)].complexity

RECURSIVE MaxComplexity(_)
MaxComplexity(nodes) ==
    IF nodes = <<>> THEN 0 ELSE Max(Head(nodes).complexity, MaxComplexity(Tail(nodes)))

\* Formatter.init_internals
init_internals(self) ==
    [self EXCEPT
       !.eol_str = IF self.json_eol_style = "CRLF" THEN <<"\r", "\n">> ELSE <<"\n">>,
       !.indent_str = IF self.use_tab_to_indent THEN <<"\t">>
                      ELSE Repeat(<<" ">>, self.indent_spaces),
       !.padded_comma_str = IF self.comma_padding THEN <<",", " ">> ELSE <<",">>,
       !.padded_colon_str = IF self.colon_padding THEN <<":", " ">> ELSE <<":">>]

\* Formatter.indent: the cache entry of a depth is filled on first use and
\* never recomputed
indent(self, st, buffer, depth) ==
    With(IF depth \in DOMAIN st.indent_cache THEN st.indent_cache
         ELSE st.indent_cache @@ (depth :> Repeat(self.indent_str, depth)), LAMBDA cache :
       [buffer |-> buffer \o self.prefix_string \o cache[depth],
        st |-> [st EXCEPT !.indent_cache = cache]])

\* Formatter.format_simple
format_simple(self, depth, element) ==
    [FormattedNode EXCEPT
       !.value = json_dumps(element),
       !.value_length = str_len(json_dumps(element)),
       !.complexity = 0,
       !.depth = depth,
       !.kind = CASE element.k = "null" -> "NULL"
                  [] element.k = "bool" -> "BOOLEAN"
                  [] element.k = "int" -> "INT"
                  [] element.k = "float" -> "FLOAT"
                  [] OTHER -> "STRING"]

\* Formatter.empty_list
empty_list(depth) ==
    [FormattedNode EXCEPT !.value = <<"[", "]">>, !.value_length = 2, !.complexity = 0,
                          !.depth = depth, !.kind = "LIST", !.format = "INLINE"]

\* Formatter.empty_dict
empty_dict(depth) ==
    [FormattedNode EXCEPT !.value = <<"{", "}">>, !.value_length = 2, !.complexity = 0,
                          !.depth = depth, !.kind = "DICT", !.format = "INLINE"]

\* the loop of format_list_inline joining the children's values
RECURSIVE JoinValues(_, _)
JoinValues(children, sep) ==
    IF children = <<>> THEN <<>>
    ELSE IF Len(children) = 1 THEN Head(children).value
    ELSE Head(children).value \o sep \o JoinValues(Tail(children), sep)

\* format_list_inline that does not look at always_expand_depth
format_list_inline_any_depth(self, item) ==
    IF item.complexity > self.max_inline_complexity
       \/ \E i \in 1..Len(item.children) : item.children[i].format # "INLINE"
    THEN [ok |-> FALSE, item |-> item]
    ELSE With(IF item.complexity >= 2
              THEN self.nested_bracket_padding
              ELSE self.simple_bracket_padding, LAMBDA use_bracket_padding :
         With(IF use_bracket_padding THEN <<" ">> ELSE <<>>, LAMBDA pad :
         With(2 + (IF use_bracket_padding THEN 2 ELSE 0)
              + (Len(item.children) - 1) * Len(self.padded_comma_str)
              + SumValueLength(item.children), LAMBDA line_length :
            IF line_length > self.max_inline_length
            THEN [ok |-> FALSE, item |-> item]
            ELSE [ok |-> TRUE,
                  item |-> [item EXCEPT
                     !.value = <<"[">> \o pad
                               \o JoinValues(item.children, self.padded_comma_str)
                               \o pad \o <<"]">>,
                     !.value_length = line_length,
                     !.format = "INLINE"]])))

\* format_list_inline that does not compare the line with max_inline_length
format_list_inline_any_length(self, item) ==
    IF item.depth <= self.always_expand_depth
       \/ item.complexity > self.max_inline_complexity
       \/ \E i \in 1..Len(item.children) : item.children[i].format # "INLINE"
    THEN [ok |-> FALSE, item |-> item]
    ELSE With(IF item.complexity >= 2
              THEN self.nested_bracket_padding
              ELSE self.simple_bracket_padding, LAMBDA use_bracket_padding :
         With(IF use_bracket_padding THEN <<" ">> ELSE <<>>, LAMBDA pad :
            [ok |-> TRUE,
             item |-> [item EXCEPT
                !.value = <<"[">> \o pad
                          \o JoinValues(item.children, self.padded_comma_str)
                          \o pad \o <<"]">>,
                !.value_length = 2 + (IF use_bracket_padding THEN 2 ELSE 0)
                                 + (Len(item.children) - 1) * Len(self.padded_comma_str)
                                 + SumValueLength(item.children),
                !.format = "INLINE"]]))

\* Formatter.format_list_inline; [ok |-> returned bool, item |-> the node after]
format_list_inline(self, item) ==
    IF item.depth <= self.always_expand_depth
       \/ item.complexity > self.max_inline_complexity
    THEN [ok |-> FALSE, item |-> item]
    ELSE IF \E i \in 1..Len(item.children) : item.children[i].format # "INLINE"
    THEN [ok |-> FALSE, item |-> item]
    ELSE With(IF item.complexity >= 2
              THEN self.nested_bracket_padding
              ELSE self.simple_bracket_padding, LAMBDA use_bracket_padding :
         With(IF use_bracket_padding THEN <<" ">> ELSE <<>>, LAMBDA pad :
         With(2 + (IF use_bracket_padding THEN 2 ELSE 0)
              + (Len(item.children) - 1) * Len(self.padded_comma_str)
              + SumValueLength(item.children), LAMBDA line_length :
            IF line_length > self.max_inline_length
            THEN [ok |-> FALSE, item |-> item]
            ELSE [ok |-> TRUE,
                  item |-> [item EXCEPT
                     !.value = <<"[">> \o pad
                               \o JoinValues(item.children, self.padded_comma_str)
                               \o pad \o <<"]">>,
                     !.value_length = line_length,
                     !.format = "INLINE"]])))

\* the loop of format_dict_inline joining name, colon and value of the children
RECURSIVE JoinProps(_, _, _)
JoinProps(children, colon, sep) ==
    IF children = <<>> THEN <<>>
    ELSE Head(children).name \o colon \o Head(children).value
         \o (IF Len(children) = 1 THEN <<>> ELSE sep \o JoinProps(Tail(children), colon, sep))

\* format_dict_inline that takes the bracket padding of every dict from
\* nested_bracket_padding
format_dict_inline_nested_padding(self, item) ==
    IF item.depth <= self.always_expand_depth
       \/ item.complexity > self.max_inline_complexity
       \/ \E i \in 1..Len(item.children) : item.children[i].format # "INLINE"
    THEN [ok |-> FALSE, item |-> item]
    ELSE With(self.nested_bracket_padding, LAMBDA use_bracket_padding :
         With(IF use_bracket_padding THEN <<" ">> ELSE <<>>, LAMBDA pad :
         With(2 + (IF use_bracket_padding THEN 2 ELSE 0)
              + Len(item.children) * Len(self.padded_colon_str)
              + (Len(item.children) - 1) * Len(self.padded_comma_str)
              + SumNameLength(item.children)
              + SumValueLength(item.children), LAMBDA line_length :
            IF line_length > self.max_inline_length
            THEN [ok |-> FALSE, item |-> item]
            ELSE [ok |-> TRUE,
                  item |-> [item EXCEPT
                     !.value = <<"{">> \o pad
                               \o JoinProps(item.children, self.padded_colon_str,
                                            self.padded_comma_str)
                               \o pad \o <<"}">>,
                     !.value_length = line_length,
                     !.format = "INLINE"]])))

\* Formatter.format_dict_inline
format_dict_inline(self, item) ==
    IF item.depth <= self.always_expand_depth
       \/ item.complexity > self.max_inline_complexity
    THEN [ok |-> FALSE, item |-> item]
    ELSE IF \E i \in 1..Len(item.children) : item.children[i].format # "INLINE"
    THEN [ok |-> FALSE, item |-> item]
    ELSE With(IF item.complexity >= 2
              THEN self.nested_bracket_padding
              ELSE self.simple_bracket_padding, LAMBDA use_bracket_padding :
         With(IF use_bracket_padding THEN <<" ">> ELSE <<>>, LAMBDA pad :
         With(2 + (IF use_bracket_padding THEN 2 ELSE 0)
              + Len(item.children) * Len(self.padded_colon_str)
              + (Len(item.children) - 1) * Len(self.padded_comma_str)
              + SumNameLength(item.children)
              + SumValueLength(item.children), LAMBDA line_length :
            IF line_length > self.max_inline_length
            THEN [ok |-> FALSE, item |-> item]
            ELSE [ok |-> TRUE,
                  item |-> [item EXCEPT
                     !.value = <<"{">> \o pad
                               \o JoinProps(item.children, self.padded_colon_str,
                                            self.padded_comma_str)
                               \o pad \o <<"}">>,
                     !.value_length = line_length,
                     !.format = "INLINE"]])))

\* the loop of format_list_expanded: one child per line
RECURSIVE list_expanded_loop(_, _, _, _, _)
list_expanded_loop(self, st, children, buffer, first_elem) ==
    IF children = <<>> THEN [buffer |-> buffer, st |-> st]
    ELSE With(Head(children), LAMBDA child :
         With(IF first_elem THEN buffer
              ELSE buffer \o self.padded_comma_str \o self.eol_str, LAMBDA b0 :
         With(indent(self, st, b0, child.depth), LAMBDA b1 :
            list_expanded_loop(self, b1.st, Tail(children),
                               b1.buffer \o child.value, FALSE))))

\* Formatter.format_list_expanded; [ok, item, st]
format_list_expanded(self, st, item) ==
    With(list_expanded_loop(self, st, item.children,
                            <<"[">> \o self.eol_str, TRUE), LAMBDA body :
    With(indent(self, body.st, body.buffer \o self.eol_str, item.depth), LAMBDA last :
       [ok |-> TRUE,
        item |-> [item EXCEPT !.value = last.buffer \o <<"]">>, !.format = "EXPANDED"],
        st |-> last.st]))

\* the loop of format_dict_expanded
RECURSIVE dict_expanded_loop(_, _, _, _, _, _, _)
dict_expanded_loop(self, st, children, buffer, first_item, expand_names,
                   max_prop_name_length) ==
    IF children = <<>> THEN [buffer |-> buffer, st |-> st]
    ELSE With(Head(children), LAMBDA prop :
         With(IF first_item THEN buffer
              ELSE buffer \o self.padded_comma_str \o self.eol_str, LAMBDA b0 :
         With(indent(self, st, b0, prop.depth), LAMBDA b1 :
         With(b1.buffer \o prop.name
              \o (IF expand_names
                  THEN Repeat(<<" ">>, max_prop_name_length - prop.name_length)
                  ELSE <<>>)
              \o self.padded_colon_str \o prop.value, LAMBDA b2 :
            dict_expanded_loop(self, b1.st, Tail(children), b2, FALSE, expand_names,
                               max_prop_name_length)))))

\* Formatter.format_dict_expanded
format_dict_expanded(self, st, item, force_expand_prop_names) ==
    With(dict_expanded_loop(self, st, item.children, <<"{">> \o self.eol_str, TRUE,
             self.align_expanded_property_names \/ force_expand_prop_names,
             MaxNameLength(item.children)), LAMBDA body :
    With(indent(self, body.st, body.buffer \o self.eol_str, item.depth), LAMBDA last :
       [ok |-> TRUE,
        item |-> [item EXCEPT !.value = last.buffer \o <<"}">>, !.format = "EXPANDED"],
        st |-> last.st]))

\* flag_new_line that counts the separator after the child against
\* max_inline_length
flag_new_line_strict(self, children, child_index, line_length_so_far, segment_length) ==
    /\ child_index # 0
    /\ With(children[child_index + 1].format, LAMBDA cur :
       With(children[child_index].format, LAMBDA prev :
          IF ~IsInline(cur) THEN IsInline(prev)
          ELSE IF ~IsInline(prev) THEN TRUE
          ELSE /\ line_length_so_far + segment_length > self.max_inline_length
               /\ line_length_so_far > 0))

\* flag_new_line that breaks the line on either side of every child that is
\* not Inline
flag_new_line_around(self, children, child_index, line_length_so_far, segment_length) ==
    /\ child_index # 0
    /\ With(children[child_index + 1].format, LAMBDA cur :
       With(children[child_index].format, LAMBDA prev :
          IF ~IsInline(cur) \/ ~IsInline(prev) THEN TRUE
          ELSE /\ line_length_so_far + segment_length
                    > self.max_inline_length + Len(self.padded_comma_str)
               /\ line_length_so_far > 0))

\* the line-break decision inside the loops of format_list_multiline_compact and
\* format_dict_multiline_compact (flag_new_line)
flag_new_line(self, children, child_index, line_length_so_far, segment_length) ==
    /\ child_index # 0
    /\ With(children[child_index + 1].format, LAMBDA cur :
       With(children[child_index].format, LAMBDA prev :
          IF ~IsInline(cur) THEN IsInline(prev)
          ELSE IF ~IsInline(prev) THEN TRUE
          ELSE /\ line_length_so_far + segment_length
                    > self.max_inline_length + Len(self.padded_comma_str)
               /\ line_length_so_far > 0))

\* the while loop of format_list_multiline_compact (child_index counts from 0)
RECURSIVE list_compact_loop(_, _, _, _, _, _)
list_compact_loop(self, st, item, buffer, line_length_so_far, child_index) ==
    IF child_index >= Len(item.children) THEN [buffer |-> buffer, st |-> st]
    ELSE With(item.children[child_index + 1], LAMBDA child :
         With(child_index < Len(item.children) - 1, LAMBDA not_last_item :
         With(child.value_length + Len(self.padded_comma_str), LAMBDA segment_length :
         With(flag_new_line(self, item.children, child_index,
                            line_length_so_far, segment_length), LAMBDA brk :
         With(IF brk THEN indent(self, st, buffer \o self.eol_str, item.depth + 1)
              ELSE [buffer |-> buffer, st |-> st], LAMBDA b1 :
         With(b1.buffer \o child.value
              \o (IF not_last_item THEN self.padded_comma_str ELSE <<>>), LAMBDA b2 :
            list_compact_loop(self, b1.st, item, b2,
                              (IF brk THEN 0 ELSE line_length_so_far) + segment_length,
                              child_index + 1)))))))

\* Formatter.format_list_multiline_compact
format_list_multiline_compact(self, st, item) ==
    IF item.depth <= self.always_expand_depth
       \/ item.complexity > self.max_compact_list_complexity
    THEN [ok |-> FALSE, item |-> item, st |-> st]
    ELSE With(indent(self, st, <<"[">> \o self.eol_str, item.depth + 1), LAMBDA first :
         With(list_compact_loop(self, first.st, item, first.buffer, 0, 0), LAMBDA body :
         With(indent(self, body.st, body.buffer \o self.eol_str, item.depth), LAMBDA last :
            [ok |-> TRUE,
             item |-> [item EXCEPT !.value = last.buffer \o <<"]">>,
                                   !.format = "MULTILINE_COMPACT"],
             st |-> last.st])))

\* the while loop of format_dict_multiline_compact; with force_expand_prop_names
\* it also overwrites the children's name_length
RECURSIVE dict_compact_loop(_, _, _, _, _, _, _, _)
dict_compact_loop(self, st, item, buffer, line_length_so_far, child_index,
                  force_expand_prop_names, max_prop_name_length) ==
    IF child_index >= Len(item.children) THEN [buffer |-> buffer, st |-> st, item |-> item]
    ELSE With(item.children[child_index + 1], LAMBDA prop0 :
         With(child_index < Len(item.children) - 1, LAMBDA not_last_item :
         With(prop0.name
              \o (IF force_expand_prop_names
                  THEN Repeat(<<" ">>, max_prop_name_length - prop0.name_length)
                  ELSE <<>>)
              \o self.padded_colon_str \o prop0.value, LAMBDA prop_buffer :
         With(IF force_expand_prop_names
              THEN [prop0 EXCEPT !.name_length = max_prop_name_length]
              ELSE prop0, LAMBDA prop :
         With([item EXCEPT !.children[child_index + 1] = prop], LAMBDA item1 :
         With(prop.name_length + Len(self.padded_colon_str)
              + prop.value_length + Len(self.padded_comma_str), LAMBDA segment_length :
         With(flag_new_line(self, item1.children, child_index,
                            line_length_so_far, segment_length), LAMBDA brk :
         With(IF brk THEN indent(self, st, buffer \o self.eol_str, item.depth + 1)
              ELSE [buffer |-> buffer, st |-> st], LAMBDA b1 :
         With(b1.buffer \o prop_buffer
              \o (IF not_last_item THEN self.padded_comma_str ELSE <<>>), LAMBDA b2 :
            dict_compact_loop(self, b1.st, item1, b2,
                              (IF brk THEN 0 ELSE line_length_so_far) + segment_length,
                              child_index + 1, force_expand_prop_names,
                              max_prop_name_length))))))))))

\* format_dict_multiline_compact that lays out dicts like lists, whether or not
\* multiline_compact_dict is set
format_dict_multiline_compact_always(self, st, item, force_expand_prop_names) ==
    IF item.depth <= self.always_expand_depth
       \/ item.complexity > self.max_compact_list_complexity
    THEN [ok |-> FALSE, item |-> item, st |-> st]
    ELSE With(indent(self, st, <<"{">> \o self.eol_str, item.depth + 1), LAMBDA first :
         With(dict_compact_loop(self, first.st, item, first.buffer, 0, 0,
                                force_expand_prop_names,
                                MaxNameLength(item.children)), LAMBDA body :
         With(indent(self, body.st, body.buffer \o self.eol_str, item.depth), LAMBDA last :
            [ok |-> TRUE,
             item |-> [body.item EXCEPT !.value = last.buffer \o <<"}">>,
                                        !.format = "MULTILINE_COMPACT"],
             st |-> last.st])))

\* format_dict_multiline_compact that does not look at always_expand_depth
format_dict_multiline_compact_any_depth(self, st, item, force_expand_prop_names) ==
    IF ~self.multiline_compact_dict
       \/ item.complexity > self.max_compact_list_complexity
    THEN [ok |-> FALSE, item |-> item, st |-> st]
    ELSE With(indent(self, st, <<"{">> \o self.eol_str, item.depth + 1), LAMBDA first :
         With(dict_compact_loop(self, first.st, item, first.buffer, 0, 0,
                                force_expand_prop_names,
                                MaxNameLength(item.children)), LAMBDA body :
         With(indent(self, body.st, body.buffer \o self.eol_str, item.depth), LAMBDA last :
            [ok |-> TRUE,
             item |-> [body.item EXCEPT !.value = last.buffer \o <<"}">>,
                                        !.format = "MULTILINE_COMPACT"],
             st |-> last.st])))

\* Formatter.format_dict_multiline_compact
format_dict_multiline_compact(self, st, item, force_expand_prop_names) ==
    IF ~self.multiline_compact_dict
       \/ item.depth <= self.always_expand_depth
       \/ item.complexity > self.max_compact_list_complexity
    THEN [ok |-> FALSE, item |-> item, st |-> st]
    ELSE With(indent(self, st, <<"{">> \o self.eol_str, item.depth + 1), LAMBDA first :
         With(dict_compact_loop(self, first.st, item, first.buffer, 0, 0,
                                force_expand_prop_names,
                                MaxNameLength(item.children)), LAMBDA body :
         With(indent(self, body.st, body.buffer \o self.eol_str, item.depth), LAMBDA last :
            [ok |-> TRUE,
             item |-> [body.item EXCEPT !.value = last.buffer \o <<"}">>,
                                        !.format = "MULTILINE_COMPACT"],
             st |-> last.st])))

\* a warning channel that drops a warning of a kind it has already shown
warn_once_per_kind(st, kind, key) ==
    IF \E i \in 1..Len(st.warnings) : st.warnings[i].kind = kind THEN st
    ELSE [st EXCEPT !.warnings = Append(st.warnings, [kind |-> kind, key |-> key])]

\* warnings.warn(...): one more warning on the channel
warn(st, kind, key) ==
    [st EXCEPT !.warnings = Append(st.warnings, [kind |-> kind, key |-> key])]

\* a call of ColumnStats.format_value from the Formatter, with the warning of
\* _fixed_value emitted when its fallback is taken
call_format_value(st, cs, node) ==
    With(format_value(cs, node.value, node.value_length), LAMBDA r :
       [v |-> r.v, st |-> IF r.warn THEN warn(st, "quantize", node.value) ELSE st])

\* the first loop of format_list_table_row: the elements this row has
RECURSIVE list_row_cells(_, _, _, _, _, _)
list_row_cells(self, st, item, column_stats_list, buffer, index) ==
    IF index >= Len(item.children) THEN [buffer |-> buffer, st |-> st]
    ELSE With(call_format_value(st, column_stats_list[index + 1],
                                item.children[index + 1]), LAMBDA cell :
            list_row_cells(self, cell.st, item, column_stats_list,
                           buffer \o (IF index # 0 THEN self.padded_comma_str ELSE <<>>)
                                  \o cell.v,
                           index + 1))

\* the second loop of format_list_table_row: padding for the missing elements
RECURSIVE list_row_padding(_, _, _, _)
list_row_padding(self, column_stats_list, index, last) ==
    IF index >= last THEN <<>>
    ELSE Repeat(<<" ">>, max_value_size(column_stats_list[index + 1])
                         + (IF index = 0 THEN 0 ELSE Len(self.padded_comma_str)))
         \o list_row_padding(self, column_stats_list, index + 1, last)

RECURSIVE SumMaxValueSize(_)
SumMaxValueSize(cols) ==
    IF cols = <<>> THEN 0 ELSE max_value_size(Head(cols)) + SumMaxValueSize(Tail(cols))

RECURSIVE SumPropNameLength(_)
SumPropNameLength(cols) ==
    IF cols = <<>> THEN 0 ELSE Head(cols).prop_name_length + SumPropNameLength(Tail(cols))

\* Formatter.format_list_table_row; [item, st]
format_list_table_row(self, st, item, column_stats_list) ==
    With(list_row_cells(self, st, item, column_stats_list, <<"[", " ">>, 0), LAMBDA cells :
    With(list_row_padding(self, column_stats_list, Len(item.children),
                          Len(column_stats_list)), LAMBDA padding :
       [item |-> [item EXCEPT
                    !.value = cells.buffer \o padding \o <<" ", "]">>,
                    !.value_length = SumMaxValueSize(column_stats_list)
                                     + Len(self.padded_comma_str)
                                       * (Len(column_stats_list) - 1)
                                     + 4,
                    !.format = "INLINE_TABULAR"],
        st |-> cells.st]))

\* list(filter(lambda fn: fn.name == column_stats.prop_name, item.children)):
\* the index of the first match, 0 when there is none
RECURSIVE FindProp(_, _, _)
FindProp(children, prop_name, i) ==
    IF i > Len(children) THEN 0
    ELSE IF children[i].name = prop_name THEN i
    ELSE FindProp(children, prop_name, i + 1)

\* the first loop of format_dict_table_row: one segment per column;
\* [segments, highest_non_blank_index, st] (col_index counts from 0)
RECURSIVE dict_row_segments(_, _, _, _, _, _, _)
dict_row_segments(self, st, item, column_stats_list, col_index, segments, highest) ==
    IF col_index >= Len(column_stats_list)
    THEN [segments |-> segments, highest_non_blank_index |-> highest, st |-> st]
    ELSE With(column_stats_list[col_index + 1], LAMBDA column_stats :
         With(FindProp(item.children, column_stats.prop_name, 1), LAMBDA found :
         With(column_stats.prop_name_length + Len(self.padded_colon_str)
              + max_value_size(column_stats), LAMBDA skip_length :
         With(call_format_value(st, column_stats, item.children[found]), LAMBDA cell :
            IF found = 0
            THEN dict_row_segments(self, st, item, column_stats_list, col_index + 1,
                                   Append(segments, Repeat(<<" ">>, skip_length)), highest)
            ELSE dict_row_segments(self, cell.st, item, column_stats_list, col_index + 1,
                                   Append(segments, column_stats.prop_name
                                                    \o self.padded_colon_str \o cell.v),
                                   col_index)))))

IsSpaceChar(c) == c \in {" ", "\t", "\n", "\r"}

\* len(segment_string.strip()) != 0
NotBlank(s) == \E i \in 1..Len(s) : ~IsSpaceChar(s[i])

\* the second loop of format_dict_table_row: the segments with commas between
RECURSIVE dict_row_join(_, _, _, _, _, _)
dict_row_join(self, segments, highest, segment_index, needs_comma, buffer) ==
    IF segment_index >= Len(segments) THEN buffer
    ELSE With(segments[segment_index + 1], LAMBDA segment_string :
         With(IF needs_comma /\ segment_index <= highest THEN self.padded_comma_str
              ELSE IF segment_index # 0
              THEN Repeat(<<" ">>, Len(self.padded_comma_str))
              ELSE <<>>, LAMBDA sep :
            dict_row_join(self, segments, highest, segment_index + 1,
                          NotBlank(segment_string), buffer \o sep \o segment_string)))

\* Formatter.format_dict_table_row; [item, st]
format_dict_table_row(self, st, item, column_stats_list) ==
    With(dict_row_segments(self, st, item, column_stats_list, 0, <<>>, -1), LAMBDA segs :
       [item |-> [item EXCEPT
                    !.value = dict_row_join(self, segs.segments,
                                            segs.highest_non_blank_index, 0, FALSE,
                                            <<"{", " ">>) \o <<" ", "}">>,
                    !.format = "INLINE_TABULAR"],
        st |-> segs.st])

\* the loop of justify_parallel_numbers gathering the stats of the siblings
RECURSIVE update_all(_, _, _)
update_all(cs, nodes, i) ==
    IF i > Len(nodes) THEN cs ELSE update_all(update(cs, nodes[i], 0), nodes, i + 1)

\* the loop of justify_parallel_numbers re-rendering the siblings
RECURSIVE justify_loop(_, _, _, _)
justify_loop(st, cs, nodes, i) ==
    IF i > Len(nodes) THEN [items |-> nodes, st |-> st]
    ELSE With(call_format_value(st, cs, nodes[i]), LAMBDA cell :
            justify_loop(cell.st, cs,
                         [nodes EXCEPT ![i] = [nodes[i] EXCEPT
                               !.value = cell.v,
                               !.value_length = max_value_size(cs)]],
                         i + 1))

\* justify_parallel_numbers that re-renders the siblings whatever their kinds
justify_parallel_any_kind(self, st, item_list) ==
    IF Len(item_list) < 2 \/ self.dont_justify_numbers
    THEN [items |-> item_list, st |-> st]
    ELSE justify_loop(st, update_all(ColumnStats(self.dont_justify_numbers),
                                     item_list, 1), item_list, 1)

\* Formatter.justify_parallel_numbers; [items, st]
justify_parallel_numbers(self, st, item_list) ==
    IF Len(item_list) < 2 \/ self.dont_justify_numbers
    THEN [items |-> item_list, st |-> st]
    ELSE With(update_all(ColumnStats(self.dont_justify_numbers),
                         item_list, 1), LAMBDA column_stats :
            IF column_stats.kind \notin {"INT", "FLOAT"}
            THEN [items |-> item_list, st |-> st]
            ELSE justify_loop(st, column_stats, item_list, 1))

\* props[prop_node.name] of get_property_stats: the dict of ColumnStats is held
\* as the sequence of its values in insertion order
RECURSIVE FindColumn(_, _, _)
FindColumn(props, name, i) ==
    IF i > Len(props) THEN 0
    ELSE IF props[i].prop_name = name THEN i
    ELSE FindColumn(props, name, i + 1)

\* the inner loop of get_property_stats over the properties of one child
RECURSIVE property_stats_row(_, _, _, _)
property_stats_row(self, props, row, index) ==
    IF index >= Len(row) THEN props
    ELSE With(row[index + 1], LAMBDA prop_node :
         With(FindColumn(props, prop_node.name, 1), LAMBDA at :
         With([ColumnStats(self.dont_justify_numbers) EXCEPT
                  !.prop_name = prop_node.name,
                  !.prop_name_length = prop_node.name_length], LAMBDA fresh :
            property_stats_row(self,
                IF at = 0 THEN Append(props, update(fresh, prop_node, index))
                ELSE [props EXCEPT ![at] = update(props[at], prop_node, index)],
                row, index + 1))))

\* the outer loop of get_property_stats over the children
RECURSIVE property_stats_rows(_, _, _, _)
property_stats_rows(self, props, children, i) ==
    IF i > Len(children) THEN props
    ELSE property_stats_rows(self,
             property_stats_row(self, props, children[i].children, 0), children, i + 1)

\* a comparison under which a column goes before those of equal average index
KeyLessOrEqual(a, b) == a.order_sum * b.count <= b.order_sum * a.count

\* sorted(props.values(), key=lambda x: x.order_sum / x.count): a stable sort
KeyLess(a, b) == a.order_sum * b.count < b.order_sum * a.count

RECURSIVE InsertSorted(_, _)
InsertSorted(sorted, x) ==
    IF sorted = <<>> THEN <<x>>
    ELSE IF KeyLess(x, Head(sorted)) THEN <<x>> \o sorted
    ELSE <<Head(sorted)>> \o InsertSorted(Tail(sorted), x)

RECURSIVE SortByAverageIndex(_, _)
SortByAverageIndex(props, acc) ==
    IF props = <<>> THEN acc
    ELSE SortByAverageIndex(Tail(props), InsertSorted(acc, Head(props)))

RECURSIVE SumCount(_)
SumCount(cols) == IF cols = <<>> THEN 0 ELSE Head(cols).count + SumCount(Tail(cols))

\* Formatter.get_property_stats; [ok |-> FALSE] stands for None
get_property_stats(self, item) ==
    IF Len(item.children) < 2 THEN [ok |-> FALSE, cols |-> <<>>]
    ELSE IF \E i \in 1..Len(item.children) :
               item.children[i].kind # "DICT" \/ item.children[i].format # "INLINE"
    THEN [ok |-> FALSE, cols |-> <<>>]
    ELSE With(property_stats_rows(self, <<>>, item.children, 1), LAMBDA props :
         With(SortByAverageIndex(props, <<>>), LAMBDA ordered_props :
         With(SumCount(ordered_props), LAMBDA total_prop_count :
         With(Len(ordered_props) * Len(item.children), LAMBDA cells :
         With(4 + SumPropNameLength(ordered_props)
              + Len(self.padded_colon_str) * Len(ordered_props)
              + SumMaxValueSize(ordered_props)
              + Len(self.padded_comma_str) * (Len(ordered_props) - 1), LAMBDA line_length :
            IF cells = 0 THEN [ok |-> FALSE, cols |-> <<>>]
            ELSE IF 100 * total_prop_count < self.table_dict_minimum_similarity * cells
            THEN [ok |-> FALSE, cols |-> <<>>]
            ELSE IF line_length > self.max_inline_length THEN [ok |-> FALSE, cols |-> <<>>]
            ELSE [ok |-> TRUE, cols |-> ordered_props])))))

RECURSIVE MaxChildCount(_)
MaxChildCount(nodes) ==
    IF nodes = <<>> THEN 0 ELSE Max(Len(Head(nodes).children), MaxChildCount(Tail(nodes)))

RECURSIVE SumChildCount(_)
SumChildCount(nodes) ==
    IF nodes = <<>> THEN 0 ELSE Len(Head(nodes).children) + SumChildCount(Tail(nodes))

\* the inner loop of get_list_stats over the elements of one row
RECURSIVE list_stats_row(_, _, _)
list_stats_row(col_stats_list, row, index) ==
    IF index >= Len(row) THEN col_stats_list
    ELSE list_stats_row([col_stats_list EXCEPT
                            ![index + 1] = update(col_stats_list[index + 1],
                                                  row[index + 1], index)],
                        row, index + 1)

\* the outer loop of get_list_stats over the rows
RECURSIVE list_stats_rows(_, _, _)
list_stats_rows(col_stats_list, children, i) ==
    IF i > Len(children) THEN col_stats_list
    ELSE list_stats_rows(list_stats_row(col_stats_list, children[i].children, 0),
                         children, i + 1)

\* get_list_stats that does not compare the projected row with max_inline_length
get_list_stats_any_width(self, item) ==
    IF Len(item.children) < 2 THEN [ok |-> FALSE, cols |-> <<>>]
    ELSE IF \E i \in 1..Len(item.children) :
               item.children[i].kind # "LIST" \/ item.children[i].format # "INLINE"
    THEN [ok |-> FALSE, cols |-> <<>>]
    ELSE With(MaxChildCount(item.children), LAMBDA number_of_columns :
         With(list_stats_rows(
                 [x \in 1..number_of_columns |-> ColumnStats(self.dont_justify_numbers)],
                 item.children, 1), LAMBDA col_stats_list :
         With(SumChildCount(item.children), LAMBDA total_elem_count :
         With(Len(item.children) * number_of_columns, LAMBDA cells :
            IF cells = 0 THEN [ok |-> FALSE, cols |-> <<>>]
            ELSE IF 100 * total_elem_count < self.table_list_minimum_similarity * cells
            THEN [ok |-> FALSE, cols |-> <<>>]
            ELSE [ok |-> TRUE, cols |-> col_stats_list]))))

\* Formatter.get_list_stats; [ok |-> FALSE] stands for None
get_list_stats(self, item) ==
    IF Len(item.children) < 2 THEN [ok |-> FALSE, cols |-> <<>>]
    ELSE IF \E i \in 1..Len(item.children) :
               item.children[i].kind # "LIST" \/ item.children[i].format # "INLINE"
    THEN [ok |-> FALSE, cols |-> <<>>]
    ELSE With(MaxChildCount(item.children), LAMBDA number_of_columns :
         With(list_stats_rows(
                 [x \in 1..number_of_columns |-> ColumnStats(self.dont_justify_numbers)],
                 item.children, 1), LAMBDA col_stats_list :
         With(SumChildCount(item.children), LAMBDA total_elem_count :
         With(Len(item.children) * number_of_columns, LAMBDA cells :
         With(4 + SumMaxValueSize(col_stats_list)
              + (Len(col_stats_list) - 1) * Len(self.padded_comma_str), LAMBDA line_length :
            IF cells = 0 THEN [ok |-> FALSE, cols |-> <<>>]
            ELSE IF 100 * total_elem_count < self.table_list_minimum_similarity * cells
            THEN [ok |-> FALSE, cols |-> <<>>]
            ELSE IF line_length > self.max_inline_length THEN [ok |-> FALSE, cols |-> <<>>]
            ELSE [ok |-> TRUE, cols |-> col_stats_list])))))

\* the loop of the four format_table_* methods re-rendering every child as a
\* row and overwriting its value_length; as_dict selects format_dict_table_row
RECURSIVE table_rows(_, _, _, _, _, _, _)
table_rows(self, st, children, cols, value_length, as_dict, i) ==
    IF i > Len(children) THEN [children |-> children, st |-> st]
    ELSE With(IF as_dict THEN format_dict_table_row(self, st, children[i], cols)
              ELSE format_list_table_row(self, st, children[i], cols), LAMBDA row :
            table_rows(self, row.st,
                       [children EXCEPT ![i] = [row.item EXCEPT !.value_length = value_length]],
                       cols, value_length, as_dict, i + 1))

\* value_length of the rows of a table of dicts
dict_table_value_length(self, cols) ==
    SumPropNameLength(cols) + SumMaxValueSize(cols)
    + Len(self.padded_colon_str) * Len(cols)
    + Len(self.padded_comma_str) * (Len(cols) - 1) + 4

\* value_length of the rows of a table of lists
list_table_value_length(self, cols) ==
    SumMaxValueSize(cols) + Len(self.padded_comma_str) * (Len(cols) - 1) + 4

\* format_table_list_dict that lays the dicts out as a table however little
\* they have in common, table_dict_minimum_similarity never looked at
format_table_list_dict_any_similarity(self, st, item) ==
    With(get_property_stats([self EXCEPT !.table_dict_minimum_similarity = 0],
                            item), LAMBDA col_stats :
    With(table_rows(self, st, item.children, col_stats.cols,
                    dict_table_value_length(self, col_stats.cols), TRUE, 1), LAMBDA rows :
    With([item EXCEPT !.children = rows.children], LAMBDA item1 :
    With(format_list_multiline_compact(self, rows.st, item1), LAMBDA compact :
       IF ~col_stats.ok THEN [ok |-> FALSE, item |-> item, st |-> st]
       ELSE IF compact.ok THEN compact
       ELSE format_list_expanded(self, rows.st, item1)))))

\* Formatter.format_table_list_dict (the threshold test is > 100.5)
format_table_list_dict(self, st, item) ==
    IF 2 * self.table_dict_minimum_similarity > 201
    THEN [ok |-> FALSE, item |-> item, st |-> st]
    ELSE With(get_property_stats(self, item), LAMBDA col_stats :
         With(table_rows(self, st, item.children, col_stats.cols,
                         dict_table_value_length(self, col_stats.cols), TRUE, 1), LAMBDA rows :
         With([item EXCEPT !.children = rows.children], LAMBDA item1 :
         With(format_list_multiline_compact(self, rows.st, item1), LAMBDA compact :
            IF ~col_stats.ok THEN [ok |-> FALSE, item |-> item, st |-> st]
            ELSE IF compact.ok THEN compact
            ELSE format_list_expanded(self, rows.st, item1)))))

\* Formatter.format_table_list_list
format_table_list_list(self, st, item) ==
    IF self.table_list_minimum_similarity > 100
    THEN [ok |-> FALSE, item |-> item, st |-> st]
    ELSE With(get_list_stats(self, item), LAMBDA column_stats :
         With(table_rows(self, st, item.children, column_stats.cols,
                         list_table_value_length(self, column_stats.cols), FALSE, 1), LAMBDA rows :
         With([item EXCEPT !.children = rows.children], LAMBDA item1 :
         With(format_list_multiline_compact(self, rows.st, item1), LAMBDA compact :
            IF ~column_stats.ok THEN [ok |-> FALSE, item |-> item, st |-> st]
            ELSE IF compact.ok THEN compact
            ELSE format_list_expanded(self, rows.st, item1)))))

\* Formatter.format_table_dict_dict
format_table_dict_dict(self, st, item) ==
    IF self.table_dict_minimum_similarity > 100
    THEN [ok |-> FALSE, item |-> item, st |-> st]
    ELSE With(get_property_stats(self, item), LAMBDA prop_stats :
         With(table_rows(self, st, item.children, prop_stats.cols,
                         dict_table_value_length(self, prop_stats.cols), TRUE, 1), LAMBDA rows :
         With([item EXCEPT !.children = rows.children], LAMBDA item1 :
         With(format_dict_multiline_compact(self, rows.st, item1, TRUE), LAMBDA compact :
            IF ~prop_stats.ok THEN [ok |-> FALSE, item |-> item, st |-> st]
            ELSE IF compact.ok THEN compact
            ELSE format_dict_expanded(self, rows.st, item1, TRUE)))))

\* Formatter.format_table_dict_list
format_table_dict_list(self, st, item) ==
    IF self.table_list_minimum_similarity > 100
    THEN [ok |-> FALSE, item |-> item, st |-> st]
    ELSE With(get_list_stats(self, item), LAMBDA column_stats :
         With(table_rows(self, st, item.children, column_stats.cols,
                         list_table_value_length(self, column_stats.cols), FALSE, 1), LAMBDA rows :
         With([item EXCEPT !.children = rows.children], LAMBDA item1 :
         With(format_dict_multiline_compact(self, rows.st, item1, TRUE), LAMBDA compact :
            IF ~column_stats.ok THEN [ok |-> FALSE, item |-> item, st |-> st]
            ELSE IF compact.ok THEN compact
            ELSE format_dict_expanded(self, rows.st, item1, TRUE)))))

\* the strategies format_list tries in turn after the children are built
format_list_node(self, st, item) ==
    With(format_list_inline(self, item), LAMBDA inline :
    With(justify_parallel_numbers(self, st, item.children), LAMBDA justified :
    With([item EXCEPT !.children = justified.items], LAMBDA item1 :
    With(format_table_list_dict(self, justified.st, item1), LAMBDA table_dict :
    With(format_table_list_list(self, justified.st, item1), LAMBDA table_list :
    With(format_list_multiline_compact(self, justified.st, item1), LAMBDA compact :
       IF inline.ok THEN [item |-> inline.item, st |-> st]
       ELSE IF table_dict.ok THEN [item |-> table_dict.item, st |-> table_dict.st]
       ELSE IF table_list.ok THEN [item |-> table_list.item, st |-> table_list.st]
       ELSE IF compact.ok THEN [item |-> compact.item, st |-> compact.st]
       ELSE With(format_list_expanded(self, justified.st, item1), LAMBDA expanded :
               [item |-> expanded.item, st |-> expanded.st])))))))

\* the strategies format_dict tries in turn after the children are built
format_dict_node(self, st, item) ==
    With(format_dict_inline(self, item), LAMBDA inline :
    With(format_table_dict_dict(self, st, item), LAMBDA table_dict :
    With(format_table_dict_list(self, st, item), LAMBDA table_list :
    With(format_dict_multiline_compact(self, st, item, FALSE), LAMBDA compact :
       IF inline.ok THEN [item |-> inline.item, st |-> st]
       ELSE IF table_dict.ok THEN [item |-> table_dict.item, st |-> table_dict.st]
       ELSE IF table_list.ok THEN [item |-> table_list.item, st |-> table_list.st]
       ELSE IF compact.ok THEN [item |-> compact.item, st |-> compact.st]
       ELSE With(format_dict_expanded(self, st, item, FALSE), LAMBDA expanded :
               [item |-> expanded.item, st |-> expanded.st])))))

\* an Enum key taken for a key that is no str, whatever its value
enum_value_not_str(key) == IF key.t = "enum" THEN [t |-> "int", s |-> key.v.s] ELSE key

\* the key of a dict entry after `if isinstance(k, Enum): k = k.value`
enum_value(key) == IF key.t = "enum" THEN key.v ELSE key

\* a lookup in the seen keys that never finds one
FindKey_missing(keys, k, i) == 0

\* keys[k] of format_dict: the dict of seen keys is held as the sequence of the
\* stringified keys, keys[i] being the key of items[i]
RECURSIVE FindKey(_, _, _)
FindKey(keys, k, i) ==
    IF i > Len(keys) THEN 0
    ELSE IF keys[i] = k THEN i
    ELSE FindKey(keys, k, i + 1)

RECURSIVE format_element(_, _, _, _)
RECURSIVE format_list_items(_, _, _, _, _, _)
RECURSIVE format_dict_items(_, _, _, _, _, _, _)

\* items = [self.format_element(depth + 1, child) for child in element]
format_list_items(self, st, depth, element, i, items) ==
    IF i > Len(element) THEN [items |-> items, st |-> st]
    ELSE With(format_element(self, st, depth + 1, element[i]), LAMBDA r :
            format_list_items(self, r.st, depth, element, i + 1, Append(items, r.item)))

\* the loop of format_dict over element.items()
format_dict_items(self, st, depth, element, i, items, keys) ==
    IF i > Len(element) THEN [items |-> items, st |-> st]
    ELSE With(format_element(self, st, depth + 1, element[i].val), LAMBDA r :
         With(enum_value(element[i].key), LAMBDA key :
         With(IF key.t # "str" THEN warn(r.st, "convert", key.s) ELSE r.st, LAMBDA st1 :
         With(key.s, LAMBDA k :
         With([r.item EXCEPT !.name = dumps_str(k),
                             !.name_length = str_len(dumps_str(k))], LAMBDA elem :
         With(FindKey(keys, k, 1), LAMBDA at :
            IF at # 0
            THEN format_dict_items(self, warn(st1, "duplicate", k), depth, element, i + 1,
                                   [items EXCEPT ![at] = elem], keys)
            ELSE format_dict_items(self, st1, depth, element, i + 1,
                                   Append(items, elem), Append(keys, k))))))))

\* Formatter.format_list; [item, st]
format_list(self, st, depth, element) ==
    With(format_list_items(self, st, depth, element, 1, <<>>), LAMBDA built :
       IF Len(built.items) = 0 THEN [item |-> empty_list(depth), st |-> built.st]
       ELSE format_list_node(self, built.st,
                [FormattedNode EXCEPT !.kind = "LIST",
                                      !.complexity = MaxComplexity(built.items) + 1,
                                      !.depth = depth,
                                      !.children = built.items]))

\* Formatter.format_dict; [item, st]
format_dict(self, st, depth, element) ==
    With(format_dict_items(self, st, depth, element, 1, <<>>, <<>>), LAMBDA built :
       IF Len(built.items) = 0 THEN [item |-> empty_dict(depth), st |-> built.st]
       ELSE format_dict_node(self, built.st,
                [FormattedNode EXCEPT !.kind = "DICT",
                                      !.complexity = MaxComplexity(built.items) + 1,
                                      !.depth = depth,
                                      !.children = built.items]))

\* Formatter.format_element; the node is logged as it is when its own build
\* step ends, before cleanup() drops its children
format_element(self, st, depth, element) ==
    With(IF element.k = "list" THEN format_list(self, st, depth, element.items)
         ELSE IF element.k = "dict" THEN format_dict(self, st, depth, element.items)
         ELSE [item |-> format_simple(self, depth, element), st |-> st], LAMBDA r :
       [item |-> cleanup(r.item),
        st |-> [r.st EXCEPT !.built = Append(r.st.built, r.item)]])

\* re.sub(r"\s+$", "", value, flags=re.MULTILINE): of every run of whitespace,
\* the longest prefix that ends just before a "\n" or at the end of the text
\* is removed
Stripped(text, i) ==
    /\ IsSpaceChar(text[i])
    /\ \E j \in i..Len(text) :
          /\ \A k \in i..j : IsSpaceChar(text[k])
          /\ (j = Len(text) \/ text[j + 1] = "\n")

strip_trailing_whitespace(text) ==
    With(SelectSeq([i \in 1..Len(text) |-> i], LAMBDA i : ~Stripped(text, i)), LAMBDA kept :
       [k \in 1..Len(kept) |-> text[kept[k]]])

\* the body of Formatter.serialize after init_internals, for a Formatter `self`
\* whose indent cache is `cache`; [value, st]
serialize_body(self, cache, value) ==
    With(format_element(self, [indent_cache |-> cache, warnings |-> <<>>,
                               built |-> <<>>], 0, value), LAMBDA r :
    With(self.prefix_string \o r.item.value, LAMBDA text :
       [value |-> IF self.omit_trailing_whitespace
                  THEN strip_trailing_whitespace(text) ELSE text,
        st |-> r.st]))

(***************************************************************************)
(* The interpreter's call stack.  format_element calls format_list or      *)
(* format_dict, which call format_element for every child, so every level  *)
(* of nesting keeps at least two more calls open.  CPython raises          *)
(* RecursionError when the open calls exceed sys.getrecursionlimit(), 1000 *)
(* unless the caller changes it, and nothing in the package catches it.    *)
(***************************************************************************)
RecursionLimit == 1000

\* the calls of the Formatter that are open at the deepest point of
\* format_element(depth, element): format_element and one of format_list,
\* format_dict, format_simple per level.  A count from below: the frame of
\* the list comprehension and the calls into json, decimal and logging come
\* on top of it.
RECURSIVE call_depth(_)
RECURSIVE MaxCallDepth(_, _)
MaxCallDepth(children, i) ==
    IF i > Len(children) THEN 0
    ELSE Max(call_depth(children[i]), MaxCallDepth(children, i + 1))

call_depth(element) ==
    IF element.k = "nested" THEN 2 * element.n + call_depth(element.leaf)
    ELSE IF element.k = "list" THEN 2 + MaxCallDepth(element.items, 1)
    ELSE IF element.k = "dict"
    THEN 2 + MaxCallDepth([i \in 1..Len(element.items) |-> element.items[i].val], 1)
    ELSE 2

\* serialize(value) cannot finish within the recursion limit, whatever the
\* depth of the stack it is called at
RecursionError(value) == 1 + call_depth(value) > RecursionLimit

(***************************************************************************)
(* Reading JSON text back (what json.loads does with the returned text),   *)
(* used to state what the text means.  A parsed value is null, a bool, a   *)
(* number held as its numeric value (sign, integer digits, fraction digits *)
(* without trailing zeros, exponent), a string, a list, or a dict held as  *)
(* a function from its keys, so that the order of properties is immaterial *)
(* and the last of two equal keys wins.                                    *)
(***************************************************************************)
MinOf(set) == CHOOSE i \in set : \A j \in set : i <= j

\* the digits without trailing zeros
StripTrailingZeros(s) ==
    LET keep == {i \in 1..Len(s) : s[i] # "0"}
    IN IF keep = {} THEN <<>> ELSE SubSeq(s, 1, CHOOSE i \in keep : \A j \in keep : i >= j)

\* the numeric value of a JSON number literal; [ok |-> FALSE] when the text is
\* no JSON number
NumValue(lit) ==
    LET epos == {i \in 1..Len(lit) : lit[i] \in {"e", "E"}}
        mant == IF epos = {} THEN lit ELSE SubSeq(lit, 1, MinOf(epos) - 1)
        expo == IF epos = {} THEN <<>> ELSE SubSeq(lit, MinOf(epos) + 1, Len(lit))
        eneg == expo # <<>> /\ Head(expo) = "-"
        edig == IF expo # <<>> /\ Head(expo) \in {"+", "-"} THEN Tail(expo) ELSE expo
        d == DecimalParts(mant)
        dot == Contains(mant, ".")
        zero == StripZeros(d.whole \o d.frac) = <<"0">>
        ok == /\ d.ok
              /\ d.whole # <<>>
              /\ (Len(d.whole) = 1 \/ Head(d.whole) # "0")
              /\ (dot => d.frac # <<>>)
              /\ (epos # {} => edig # <<>> /\ AllDigits(edig))
    IN IF ~ok THEN [ok |-> FALSE]
       ELSE IF zero THEN [ok |-> TRUE, neg |-> FALSE, whole |-> <<"0">>, frac |-> <<>>,
                          exp |-> <<"0">>]
       ELSE [ok |-> TRUE, neg |-> d.neg, whole |-> d.whole,
             frac |-> StripTrailingZeros(d.frac),
             exp |-> IF epos = {} \/ StripZeros(edig) = <<"0">> THEN <<"0">>
                     ELSE (IF eneg THEN <<"-">> ELSE <<>>) \o StripZeros(edig)]

PNum(n) == [k |-> "num", neg |-> n.neg, whole |-> n.whole, frac |-> n.frac, exp |-> n.exp]

\* the first index >= i of text that holds no whitespace, Len(text) + 1 if none
SkipWs(text, i) ==
    MinOf({j \in i..Len(text) : ~IsSpaceChar(text[j])} \cup {Len(text) + 1})

\* a '"' at j closes a string when an even number of backslashes precede it
Escaped(text, from, j) ==
    LET run == {n \in 0..(j - from) : \A m \in 1..n : text[j - m] = "\\"}
        longest == CHOOSE n \in run : \A m \in run : n >= m
    IN longest % 2 = 1

StringEnd(text, i) ==
    MinOf({j \in (i + 1)..Len(text) : text[j] = "\"" /\ ~Escaped(text, i + 1, j)}
          \cup {Len(text) + 1})

\* the characters of a string literal without its escapes
Unescape(body) ==
    LET kept == SelectSeq([i \in 1..Len(body) |-> i],
                          LAMBDA i : ~(body[i] = "\\" /\ ~Escaped(body, 1, i)))
    IN [n \in 1..Len(kept) |-> body[kept[n]]]

NumberChars == {"-", "+", ".", "e", "E", "0", "1", "2", "3", "4", "5", "6", "7", "8", "9"}

NumberEnd(text, i) ==
    MinOf({j \in i..Len(text) : text[j] \notin NumberChars} \cup {Len(text) + 1}) - 1

StartsWith(text, i, word) ==
    i + Len(word) - 1 <= Len(text) /\ SubSeq(text, i, i + Len(word) - 1) = word

ParseFail == [ok |-> FALSE, val |-> [k |-> "invalid"], pos |-> 0]

RECURSIVE ParseValue(_, _)
RECURSIVE ParseElements(_, _, _)
RECURSIVE ParseMembers(_, _, _)

\* the value that starts at or after position i; pos is the index after it
ParseValue(text, i) ==
    LET p == SkipWs(text, i)
    IN IF p > Len(text) THEN ParseFail
       ELSE IF StartsWith(text, p, <<"n", "u", "l", "l">>)
       THEN [ok |-> TRUE, val |-> [k |-> "null"], pos |-> p + 4]
       ELSE IF StartsWith(text, p, <<"t", "r", "u", "e">>)
       THEN [ok |-> TRUE, val |-> [k |-> "bool", b |-> TRUE], pos |-> p + 4]
       ELSE IF StartsWith(text, p, <<"f", "a", "l", "s", "e">>)
       THEN [ok |-> TRUE, val |-> [k |-> "bool", b |-> FALSE], pos |-> p + 5]
       ELSE IF text[p] = "\""
       THEN LET e == StringEnd(text, p)
            IN IF e > Len(text) THEN ParseFail
               ELSE [ok |-> TRUE,
                     val |-> [k |-> "str", s |-> Unescape(SubSeq(text, p + 1, e - 1))],
                     pos |-> e + 1]
       ELSE IF text[p] = "["
       THEN LET q == SkipWs(text, p + 1)
            IN IF q <= Len(text) /\ text[q] = "]"
               THEN [ok |-> TRUE, val |-> [k |-> "list", items |-> <<>>], pos |-> q + 1]
               ELSE ParseElements(text, p + 1, <<>>)
       ELSE IF text[p] = "{"
       THEN LET q == SkipWs(text, p + 1)
            IN IF q <= Len(text) /\ text[q] = "}"
               THEN [ok |-> TRUE, val |-> [k |-> "dict", items |-> <<>>], pos |-> q + 1]
               ELSE ParseMembers(text, p + 1, <<>>)
       ELSE LET e == NumberEnd(text, p)
                n == NumValue(SubSeq(text, p, e))
            IN IF e < p \/ ~n.ok THEN ParseFail
               ELSE [ok |-> TRUE, val |-> PNum(n), pos |-> e + 1]

\* the elements of a list from position i on, up to and with the "]"
ParseElements(text, i, items) ==
    LET v == ParseValue(text, i)
        q == SkipWs(text, v.pos)
    IN IF ~v.ok \/ q > Len(text) THEN ParseFail
       ELSE IF text[q] = "]"
       THEN [ok |-> TRUE, val |-> [k |-> "list", items |-> Append(items, v.val)],
             pos |-> q + 1]
       ELSE IF text[q] = "," THEN ParseElements(text, q + 1, Append(items, v.val))
       ELSE ParseFail

\* the members of a dict from position i on, up to and with the "}"
ParseMembers(text, i, items) ==
    LET name == ParseValue(text, i)
        c == SkipWs(text, name.pos)
        v == ParseValue(text, c + 1)
        q == SkipWs(text, v.pos)
        items1 == [key \in DOMAIN items \cup {name.val.s} |->
                      IF key = name.val.s THEN v.val ELSE items[key]]
    IN IF ~name.ok \/ name.val.k # "str" \/ c > Len(text) THEN ParseFail
       ELSE IF text[c] # ":" \/ ~v.ok \/ q > Len(text) THEN ParseFail
       ELSE IF text[q] = "}"
       THEN [ok |-> TRUE, val |-> [k |-> "dict", items |-> items1], pos |-> q + 1]
       ELSE IF text[q] = "," THEN ParseMembers(text, q + 1, items1)
       ELSE ParseFail

\* json.loads(text): the value when the whole text is one JSON value
json_loads(text) ==
    LET v == ParseValue(text, 1)
    IN IF v.ok /\ SkipWs(text, v.pos) > Len(text) THEN v.val ELSE [k |-> "invalid"]

\* str(k) of a dict key, an Enum member first replaced by its value
KeyText(key) == IF key.t = "enum" THEN key.v.s ELSE key.s

\* what a value means as JSON: keys stringified, of equal keys the last wins
RECURSIVE Meaning(_)
Meaning(v) ==
    CASE v.k = "null" -> [k |-> "null"]
      [] v.k = "bool" -> [k |-> "bool", b |-> v.b]
      [] v.k \in {"int", "float"} -> PNum(NumValue(v.lit))
      [] v.k = "str" -> [k |-> "str", s |-> v.s]
      [] v.k = "list" -> [k |-> "list",
                          items |-> [i \in 1..Len(v.items) |-> Meaning(v.items[i])]]
      [] v.k = "dict" ->
           LET name(i) == KeyText(v.items[i].key)
               names == {name(i) : i \in 1..Len(v.items)}
               last(key) == CHOOSE i \in 1..Len(v.items) :
                               /\ name(i) = key
                               /\ \A j \in 1..Len(v.items) : name(j) = key => j <= i
           IN [k |-> "dict",
               items |-> [key \in names |-> Meaning(v.items[last(key)].val)]]

(***************************************************************************)
(* The state machine: one Formatter object, attribute assignments to it    *)
(* and serialize calls on it.                                              *)
(***************************************************************************)
VARIABLES
    formatter,  \* the Formatter object: dataclass fields, intermediate fields, indent_cache
    pc,         \* "idle", "formatting" inside serialize after init_internals, or
                \* "raised" once serialize has let an exception out
    arg,        \* the value of the serialize call in progress or just returned
    result,     \* the text the serialize call just returned
    warned,     \* the warnings that call emitted, in order
    built,      \* the nodes format_element returned during that call, in order
    sets,       \* number of attribute assignments so far
    args        \* the parsed command line when main() runs, NoArgs for a library call

vars == <<formatter, pc, arg, result, warned, built, sets, args>>

NoValue == [k |-> "none"]
NoArgs == [prog |-> "none"]

\* the dataclass defaults and __post_init__
Formatter ==
    [json_eol_style |-> "LF",
     max_inline_length |-> 80,
     max_inline_complexity |-> 2,
     max_compact_list_complexity |-> 1,
     nested_bracket_padding |-> TRUE,
     simple_bracket_padding |-> FALSE,
     colon_padding |-> TRUE,
     comma_padding |-> TRUE,
     always_expand_depth |-> -1,
     indent_spaces |-> 4,
     use_tab_to_indent |-> FALSE,
     table_dict_minimum_similarity |-> 75,
     table_list_minimum_similarity |-> 75,
     align_expanded_property_names |-> FALSE,
     dont_justify_numbers |-> FALSE,
     prefix_string |-> <<>>,
     multiline_compact_dict |-> FALSE,
     omit_trailing_whitespace |-> FALSE,
     eol_str |-> <<>>,
     indent_str |-> <<>>,
     padded_comma_str |-> <<>>,
     padded_colon_str |-> <<>>,
     indent_cache |-> <<>>]

\* the dataclass fields of a Formatter, without the intermediate fields
ConfigFields ==
    {"json_eol_style", "max_inline_length", "max_inline_complexity",
     "max_compact_list_complexity", "nested_bracket_padding", "simple_bracket_padding",
     "colon_padding", "comma_padding", "always_expand_depth", "indent_spaces",
     "use_tab_to_indent", "table_dict_minimum_similarity",
     "table_list_minimum_similarity", "align_expanded_property_names",
     "dont_justify_numbers", "prefix_string", "multiline_compact_dict",
     "omit_trailing_whitespace"}

Config(self) == [f \in ConfigFields |-> self[f]]

(***************************************************************************)
(* The inputs of the model.                                                *)
(***************************************************************************)
Int1 == VInt(<<"1">>)
Int2 == VInt(<<"2">>)
Int3 == VInt(<<"3">>)
Int10 == VInt(<<"1", "0">>)
Float2_5 == VFloat(<<"2", ".", "5">>)
Float1e16 == VFloat(<<"1", "e", "+", "1", "6">>)
Int0 == VInt(<<"0">>)
Float1_0000001 == VFloat(<<"1", ".", "0", "0", "0", "0", "0", "0", "1">>)
StrA == VStr(<<"a">>)
StrB == VStr(<<"b">>)
StrC == VStr(<<"c">>)
KeyA == KStr(<<"a">>)
KeyB == KStr(<<"b">>)
Key100 == <<"1", "0", "0">>
Key200 == <<"2", "0", "0">>

Values ==
    { \* [1, 2.5, 10]
      VList(<<Int1, Float2_5, Int10>>),
      \* {"bools": {"true": true, "false": false}}
      VDict(<<Prop(KStr(<<"b", "o", "o", "l", "s">>),
                   VDict(<<Prop(KStr(<<"t", "r", "u", "e">>), VBool(TRUE)),
                           Prop(KStr(<<"f", "a", "l", "s", "e">>), VBool(FALSE))>>))>>),
      \* {100: "a", 200: "b", "100": "c"}
      VDict(<<Prop(KInt(Key100), StrA), Prop(KInt(Key200), StrB),
              Prop(KStr(Key100), StrC)>>),
      \* {MyEnum.abc: 1, MyEnum2.one: 2, "1": 3, 1: null} with MyEnum.abc = "a", MyEnum2.one = 1
      VDict(<<Prop(KEnum(KeyA), Int1), Prop(KEnum(KInt(<<"1">>)), Int2),
              Prop(KStr(<<"1">>), Int3), Prop(KInt(<<"1">>), VNull)>>),
      \* [[null, 1], [2, 3]]
      VList(<<VList(<<VNull, Int1>>), VList(<<Int2, Int3>>)>>),
      \* [[1, 2.5], [10], []]
      VList(<<VList(<<Int1, Float2_5>>), VList(<<Int10>>), VList(<<>>)>>),
      \* [{"a": null, "b": 1}, {"a": 2, "b": 3}]
      VList(<<VDict(<<Prop(KeyA, VNull), Prop(KeyB, Int1)>>),
              VDict(<<Prop(KeyA, Int2), Prop(KeyB, Int3)>>)>>),
      \* [{"a": 1, "b": "a "}, {"b": "c"}, {"a": 2.5}]
      VList(<<VDict(<<Prop(KeyA, Int1), Prop(KeyB, VStr(<<"a", " ">>))>>),
              VDict(<<Prop(KeyB, StrC)>>),
              VDict(<<Prop(KeyA, Float2_5)>>)>>),
      \* [{"a": 1e+16, "b": 1}, {"b": 2}]
      VList(<<VDict(<<Prop(KeyA, Float1e16), Prop(KeyB, Int1)>>),
              VDict(<<Prop(KeyB, Int2)>>)>>),
      \* {"a": [1, 2], "b": [10]}
      VDict(<<Prop(KeyA, VList(<<Int1, Int2>>)), Prop(KeyB, VList(<<Int10>>))>>),
      \* {"a": {"a": 1, "b": true}, "b": {"b": false, "a": 2.5}}
      VDict(<<Prop(KeyA, VDict(<<Prop(KeyA, Int1), Prop(KeyB, VBool(TRUE))>>)),
              Prop(KeyB, VDict(<<Prop(KeyB, VBool(FALSE)), Prop(KeyA, Float2_5)>>))>>),
      \* [[[1, 2.5, 10], "a \"b\\"], {}, []]
      VList(<<VList(<<VList(<<Int1, Float2_5, Int10>>),
                      VStr(<<"a", " ", "\"", "b", "\\">>)>>),
              VDict(<<>>), VList(<<>>)>>),
      \* [0, 1.0000001]
      VList(<<Int0, Float1_0000001>>),
      \* [[], []]
      VList(<<VList(<<>>), VList(<<>>)>>),
      \* [{"a": 1}, {"b": 2}]
      VList(<<VDict(<<Prop(KeyA, Int1)>>), VDict(<<Prop(KeyB, Int2)>>)>>),
      \* [[[ ... [] ... ]]], DeepNesting lists around the innermost one
      VNested(DeepNesting, VList(<<>>)),
      \* [], {} and null
      VList(<<>>), VDict(<<>>), VNull }

\* the attribute assignments of the model: formatter.<param> = <value>
AttrValues ==
    { <<"json_eol_style", "CRLF">>,
      <<"max_inline_length", 10>>, <<"max_inline_length", 20>>,
      <<"max_inline_complexity", 1>>,
      <<"max_compact_list_complexity", 2>>,
      <<"nested_bracket_padding", FALSE>>,
      <<"simple_bracket_padding", TRUE>>,
      <<"colon_padding", FALSE>>,
      <<"comma_padding", FALSE>>,
      <<"always_expand_depth", 0>>, <<"always_expand_depth", 1>>,
      <<"indent_spaces", 2>>,
      <<"use_tab_to_indent", TRUE>>,
      <<"table_dict_minimum_similarity", 101>>, <<"table_dict_minimum_similarity", 30>>,
      <<"table_list_minimum_similarity", 101>>,
      <<"align_expanded_property_names", TRUE>>,
      <<"dont_justify_numbers", TRUE>>,
      <<"prefix_string", <<"/", "/">>>>, <<"prefix_string", <<" ">>>>,
      <<"multiline_compact_dict", TRUE>>,
      <<"omit_trailing_whitespace", TRUE>> }

Init ==
    /\ formatter = Formatter
    /\ pc = "idle"
    /\ arg = NoValue
    /\ result = <<>>
    /\ warned = <<>>
    /\ built = <<>>
    /\ sets = 0
    /\ args = NoArgs

\* formatter.<param> = <value> between two calls
SetAttr(param, value) ==
    /\ pc = "idle"
    /\ sets < MaxSets
    /\ formatter[param] # value
    /\ formatter' = [formatter EXCEPT ![param] = value]
    /\ sets' = sets + 1
    /\ arg' = NoValue
    /\ result' = <<>>
    /\ warned' = <<>>
    /\ built' = <<>>
    /\ UNCHANGED <<pc, args>>

\* serialize(value) is entered: self.init_internals()
SerializeEnter(value) ==
    /\ pc = "idle"
    /\ formatter' = init_internals(formatter)
    /\ pc' = "formatting"
    /\ arg' = value
    /\ result' = <<>>
    /\ warned' = <<>>
    /\ built' = <<>>
    /\ UNCHANGED <<sets, args>>

\* the rest of serialize: format_element(0, value), the prefix, the optional
\* stripping of trailing whitespace, and the return
SerializeReturn ==
    /\ pc = "formatting"
    /\ ~RecursionError(arg)
    /\ \E r \in {serialize_body(formatter, formatter.indent_cache, arg)} :
          /\ formatter' = [formatter EXCEPT !.indent_cache = r.st.indent_cache]
          /\ result' = r.value
          /\ warned' = r.st.warnings
          /\ built' = r.st.built
    /\ pc' = "idle"
    /\ UNCHANGED <<arg, sets, args>>

\* the recursion of format_element runs into the interpreter's limit on the
\* way down, before a node is built or a line indented: RecursionError leaves
\* serialize and no text is returned
SerializeRaise ==
    /\ pc = "formatting"
    /\ RecursionError(arg)
    /\ pc' = "raised"
    /\ UNCHANGED <<formatter, arg, result, warned, built, sets, args>>

Next ==
    \/ \E a \in AttrValues : SetAttr(a[1], a[2])
    \/ \E value \in Values : SerializeEnter(value)
    \/ SerializeReturn
    \/ SerializeRaise

Spec == Init /\ [][Next]_vars

(***************************************************************************)
(* The command line tool: main() parses the command line, builds one       *)
(* Formatter from it and serializes every input file with it.              *)
(***************************************************************************)
\* None, the value of a flag that has no default and was not given: no text,
\* a text being a sequence of characters
None == <<"None">>

\* command_line_parser: the defaults of the flags
DefaultArgs ==
    [prog |-> "compact-json",
     align_expanded_property_names |-> FALSE,
     align_properties |-> FALSE,
     always_expand_depth |-> "never",
     bracket_padding |-> "nested",
     colon_padding |-> TRUE,
     comma_padding |-> TRUE,
     crlf |-> FALSE,
     indent |-> 4,
     justify_numbers |-> FALSE,
     max_compact_list_complexity |-> 1,
     max_inline_length |-> 50,
     max_inline_complexity |-> 2,
     multiline_compact_dict |-> FALSE,
     omit_trailing_whitespace |-> FALSE,
     prefix_string |-> None,
     tab_indent |-> FALSE,
     table_dict_minimum_similarity |-> 75,
     table_list_minimum_similarity |-> 75]

\* the command lines of the model: no flag, or one flag
CommandLines ==
    {DefaultArgs}
    \cup {[DefaultArgs EXCEPT ![f] = TRUE] :
             f \in {"align_expanded_property_names", "align_properties", "crlf",
                    "justify_numbers", "multiline_compact_dict",
                    "omit_trailing_whitespace", "tab_indent"}}
    \cup {[DefaultArgs EXCEPT !.always_expand_depth = d] : d \in {"root", "children"}}
    \cup {[DefaultArgs EXCEPT !.bracket_padding = "simple"],
          [DefaultArgs EXCEPT !.indent = 2],
          [DefaultArgs EXCEPT !.max_compact_list_complexity = 2],
          [DefaultArgs EXCEPT !.max_inline_length = 10],
          [DefaultArgs EXCEPT !.max_inline_complexity = 1],
          [DefaultArgs EXCEPT !.prefix_string = <<"/", "/">>],
          [DefaultArgs EXCEPT !.table_dict_minimum_similarity = 101],
          [DefaultArgs EXCEPT !.table_list_minimum_similarity = 101]}

\* main: formatter = Formatter() and the assignments that follow it
main_formatter(a) ==
    [Formatter EXCEPT
       !.comma_padding = a.comma_padding,
       !.colon_padding = a.colon_padding,
       !.max_inline_length = a.max_inline_length,
       !.max_inline_complexity = a.max_inline_complexity,
       !.max_compact_list_complexity = a.max_compact_list_complexity,
       !.multiline_compact_dict = a.multiline_compact_dict,
       !.indent_spaces = a.indent,
       !.json_eol_style = IF a.crlf THEN "CRLF" ELSE @,
       !.align_expanded_property_names = IF a.align_properties THEN TRUE ELSE @,
       !.nested_bracket_padding = a.bracket_padding # "simple",
       !.simple_bracket_padding = a.bracket_padding = "simple",
       !.use_tab_to_indent = IF a.tab_indent THEN TRUE ELSE @,
       !.dont_justify_numbers = IF ~a.justify_numbers THEN FALSE ELSE @,
       !.prefix_string = IF a.prefix_string # None THEN a.prefix_string ELSE @,
       !.omit_trailing_whitespace = a.omit_trailing_whitespace,
       !.table_dict_minimum_similarity = 30,
       !.table_list_minimum_similarity = 50]

InitMain ==
    /\ formatter = Formatter
    /\ pc = "main"
    /\ arg = NoValue
    /\ result = <<>>
    /\ warned = <<>>
    /\ built = <<>>
    /\ sets = 0
    /\ args = NoArgs

\* main up to the loop over the input files
main(a) ==
    /\ pc = "main"
    /\ args' = a
    /\ formatter' = main_formatter(a)
    /\ pc' = "idle"
    /\ UNCHANGED <<arg, result, warned, built, sets>>

\* main, then for every input file json.load and formatter.serialize
NextMain ==
    \/ \E a \in CommandLines : main(a)
    \/ \E value \in Values : SerializeEnter(value)
    \/ SerializeReturn
    \/ SerializeRaise

SpecMain == InitMain /\ [][NextMain]_vars

(***************************************************************************)
(* Properties of the serialize call that has just returned.                *)
(***************************************************************************)
\* a serialize call has returned and no attribute was assigned since
Done == pc = "idle" /\ arg # NoValue

\* the node format_element(0, value) built, with its children
Root == built[Len(built)]

\* the nodes as the call leaves them: the root, and the children of every
\* node as their parent last rendered them
FinalNodes ==
    {Root} \cup {built[i].children[j] : <<i, j>> \in
                    {x \in (DOMAIN built) \X (1..4) : x[2] <= Len(built[x[1]].children)}}

\* a list or dict with at least one element (an empty one has complexity 0)
NonEmptyContainer(n) == n.kind \in {"LIST", "DICT"} /\ n.complexity > 0

WhitespaceOnly(s) == \A i \in 1..Len(s) : IsSpaceChar(s[i])

DefaultConfig == Config(formatter) = Config(Formatter)

List_1_2p5_10 == VList(<<Int1, Float2_5, Int10>>)

Dict_bools ==
    VDict(<<Prop(KStr(<<"b", "o", "o", "l", "s">>),
                 VDict(<<Prop(KStr(<<"t", "r", "u", "e">>), VBool(TRUE)),
                         Prop(KStr(<<"f", "a", "l", "s", "e">>), VBool(FALSE))>>))>>)

Dict_100_200_100 ==
    VDict(<<Prop(KInt(Key100), StrA), Prop(KInt(Key200), StrB), Prop(KStr(Key100), StrC)>>)

Dict_enum_keys ==
    VDict(<<Prop(KEnum(KeyA), Int1), Prop(KEnum(KInt(<<"1">>)), Int2),
            Prop(KStr(<<"1">>), Int3), Prop(KInt(<<"1">>), VNull)>>)

\* C1 (as stated): under every configuration, prefix_string included, the
\* returned text is valid JSON that parses back to the value serialized.
C1_ParsesBackUnderEveryConfig == Done => json_loads(result) = Meaning(arg)

\* C1 (amended): when prefix_string is empty or holds whitespace only, the
\* returned text is valid JSON and parses back to the value serialized, keys
\* stringified, the last of equal keys kept, numbers equal by numeric value.
C1_ParsesBackWithBlankPrefix ==
    (Done /\ WhitespaceOnly(formatter.prefix_string)) => json_loads(result) = Meaning(arg)

\* a table of justified numbers after a blank prefix has been parsed back
C1_Witness ==
    /\ Done
    /\ formatter.prefix_string = <<" ">>
    /\ arg.k = "list"
    /\ \E i \in DOMAIN built : \E j \in 1..Len(built[i].children) :
          built[i].children[j].format = "INLINE_TABULAR"
    /\ json_loads(result) = Meaning(arg)

\* C2 (as stated): every non-empty list or dict that ends Inline or
\* InlineTabular, table rows included, has a rendered text no wider than
\* max_inline_length.
C2_InlineWithinMaxLength ==
    Done => \A n \in FinalNodes :
               (NonEmptyContainer(n) /\ IsInline(n.format))
                  => Len(n.value) <= formatter.max_inline_length

\* C3 (as stated): every node at depth <= always_expand_depth ends Expanded.
C3_EveryNodeExpanded ==
    Done => \A n \in FinalNodes :
               n.depth <= formatter.always_expand_depth => n.format = "EXPANDED"

\* C3 (amended): every non-empty list or dict at depth <= always_expand_depth
\* ends Expanded, whatever the other settings; primitives and empty
\* containers at those depths stay Inline.
C3_NonEmptyContainersExpanded ==
    Done => \A n \in FinalNodes :
               n.depth <= formatter.always_expand_depth
                  => IF NonEmptyContainer(n) THEN n.format = "EXPANDED"
                     ELSE n.format = "INLINE"

\* a call with always_expand_depth = 1 has built a container in a container
C3_Witness ==
    /\ Done
    /\ formatter.always_expand_depth = 1
    /\ \E n \in FinalNodes : n.depth = 1 /\ NonEmptyContainer(n) /\ n.format = "EXPANDED"
    /\ \E n \in FinalNodes : n.depth = 1 /\ ~NonEmptyContainer(n)

\* C4 (as stated): when sibling dicts are laid out as a table, every row has
\* the same total display width.
C4_TableRowsSameWidth ==
    Done => \A i \in DOMAIN built :
               LET rows == built[i].children
               IN (\A j \in 1..Len(rows) :
                      rows[j].kind = "DICT" /\ rows[j].format = "INLINE_TABULAR")
                  => \A j, k \in 1..Len(rows) : Len(rows[j].value) = Len(rows[k].value)

\* the digits after the decimal point of a rendered number
Decimals(value) == IF Contains(value, ".") THEN Len(value) - IndexOf(value, ".") ELSE 0

SameWidthAndDecimals(nodes) ==
    \A i, j \in 1..Len(nodes) :
       /\ Len(nodes[i].value) = Len(nodes[j].value)
       /\ Decimals(nodes[i].value) = Decimals(nodes[j].value)

\* C5 (as stated): [1, 2.5, 10] under the default configuration has its three
\* numbers rendered with the same width and the same number of decimals.
C5_JustifiedByDefault ==
    (Done /\ arg = List_1_2p5_10 /\ DefaultConfig) => SameWidthAndDecimals(Root.children)

\* C5 (amended): under the default configuration [1, 2.5, 10] is returned as
\* the one line [1, 2.5, 10], the numbers as json.dumps writes them; they get
\* one width and one number of decimals when the list is not rendered inline
\* and dont_justify_numbers is off.
C5_JustifiedWhenNotInline ==
    (Done /\ arg = List_1_2p5_10) =>
       /\ DefaultConfig => result = <<"[", "1", ",", " ", "2", ".", "5", ",", " ", "1", "0", "]">>
       /\ (Root.format # "INLINE" /\ ~formatter.dont_justify_numbers)
             => /\ SameWidthAndDecimals(Root.children)
                /\ Root.children[1].value = <<" ", "1", ".", "0">>
                /\ Root.children[3].value = <<"1", "0", ".", "0">>

\* [1, 2.5, 10] has been serialized with justification on and did not fit inline
C5_Witness ==
    /\ Done
    /\ arg = List_1_2p5_10
    /\ Root.format # "INLINE"
    /\ ~formatter.dont_justify_numbers
    /\ formatter.max_inline_length = 10

\* C6: {"bools": {"true": true, "false": false}} under the default
\* configuration is returned as exactly
\* { "bools": {"true": true, "false": false} }
C6_BoolsOneLine ==
    (Done /\ arg = Dict_bools /\ DefaultConfig) => result = 
          <<"{", " ", "\"", "b", "o", "o", "l", "s", "\"", ":", " ", "{", "\"", "t", "r", "u", "e", "\"", ":", " ", "t", "r", "u", "e", ",", " ", "\"", "f", "a", "l", "s", "e", "\"", ":", " ", "f", "a", "l", "s", "e", "}", " ", "}">>

\* the dict of bools has been serialized under the default configuration
C6_Witness ==
    /\ Done
    /\ arg = Dict_bools
    /\ DefaultConfig
    /\ Root.complexity = 2
    /\ Root.children[1].complexity = 1

TwoPropertiesLastWins ==
    /\ Len(Root.children) = 2
    /\ Root.children[1].name = dumps_str(Key100)
    /\ Root.children[1].value = dumps_str(<<"c">>)
    /\ Root.children[2].name = dumps_str(Key200)
    /\ WhitespaceOnly(formatter.prefix_string) =>
          json_loads(result)
          = [k |-> "dict",
             items |-> [key \in {Key100, Key200} |->
                          [k |-> "str", s |-> IF key = Key100 THEN <<"c">> ELSE <<"b">>]]]

\* C7 (as stated): {100: "a", 200: "b", "100": "c"} gives two properties,
\* "100" holding "c", and exactly two warnings, one coercion and one duplicate.
C7_TwoWarnings ==
    (Done /\ arg = Dict_100_200_100) =>
       /\ TwoPropertiesLastWins
       /\ Len(warned) = 2
       /\ \E i, j \in 1..Len(warned) :
             warned[i].kind = "convert" /\ warned[j].kind = "duplicate"

\* C7 (amended): {100: "a", 200: "b", "100": "c"} gives two properties, "100"
\* holding "c", and exactly three warnings: a coercion for 100, a coercion
\* for 200, then a duplicate for "100".
C7_ThreeWarnings ==
    (Done /\ arg = Dict_100_200_100) =>
       /\ TwoPropertiesLastWins
       /\ warned = << [kind |-> "convert", key |-> Key100],
                      [kind |-> "convert", key |-> Key200],
                      [kind |-> "duplicate", key |-> Key100] >>

\* the mapping with the colliding keys 100 and "100" has been serialized
C7_Witness == Done /\ arg = Dict_100_200_100 /\ Len(Root.children) = 2 /\ Len(warned) = 3

\* the indices of the entries whose stringified key no earlier entry has
FirstOccurrences(items) ==
    SelectSeq([i \in 1..Len(items) |-> i],
              LAMBDA i : \A j \in 1..(i - 1) : KeyText(items[j].key) # KeyText(items[i].key))

\* the last entry with the stringified key of entry i
LastOccurrence(items, i) ==
    CHOOSE j \in 1..Len(items) :
       /\ KeyText(items[j].key) = KeyText(items[i].key)
       /\ \A m \in 1..Len(items) : KeyText(items[m].key) = KeyText(items[i].key) => m <= j

\* the child node carries the value v: the text of a primitive is json.dumps
\* of it; a container has the kind of v and, where no prefix is written into
\* its lines, a text that parses back to v
ChildHolds(child, v) ==
    IF v.k \in {"list", "dict"}
    THEN /\ child.kind = (IF v.k = "list" THEN "LIST" ELSE "DICT")
         /\ WhitespaceOnly(formatter.prefix_string) => json_loads(child.value) = Meaning(v)
    ELSE child.value = json_dumps(v)

\* C8: the node built for a dict has one child per distinct stringified key,
\* in the order of the keys' first occurrences, each child holding the value
\* of the key's last occurrence.
C8_DuplicateKeysOverwriteInPlace ==
    (Done /\ arg.k = "dict") =>
       LET first == FirstOccurrences(arg.items)
       IN /\ Len(Root.children) = Len(first)
          /\ \A n \in 1..Len(first) :
                /\ Root.children[n].name = dumps_str(KeyText(arg.items[first[n]].key))
                /\ ChildHolds(Root.children[n],
                              arg.items[LastOccurrence(arg.items, first[n])].val)

\* a dict with colliding keys has been built: fewer children than entries,
\* and a first slot that holds the value of a later entry
C8_Witness ==
    /\ Done
    /\ arg = Dict_enum_keys
    /\ Len(Root.children) = 2
    /\ Root.children[2].name = dumps_str(<<"1">>)
    /\ Root.children[2].value = <<"n", "u", "l", "l">>

\* the warnings the keys of a value call for, in the order of the build: for
\* each dict entry, after those of its value, a coercion when the key is no
\* str once an Enum is unwrapped, then a duplicate when an earlier entry has
\* the same stringified key
RECURSIVE KeyWarnings(_)
KeyWarnings(v) ==
    LET RECURSIVE OfList(_, _)
        OfList(items, i) ==
            IF i > Len(items) THEN <<>>
            ELSE KeyWarnings(items[i]) \o OfList(items, i + 1)
        RECURSIVE OfDict(_, _)
        OfDict(items, i) ==
            IF i > Len(items) THEN <<>>
            ELSE LET key == items[i].key
                     is_str == IF key.t = "enum" THEN key.v.t = "str" ELSE key.t = "str"
                     seen == \E j \in 1..(i - 1) : KeyText(items[j].key) = KeyText(key)
                 IN KeyWarnings(items[i].val)
                    \o (IF is_str THEN <<>>
                        ELSE <<[kind |-> "convert", key |-> KeyText(key)]>>)
                    \o (IF seen THEN <<[kind |-> "duplicate", key |-> KeyText(key)]>>
                        ELSE <<>>)
                    \o OfDict(items, i + 1)
    IN IF v.k = "list" THEN OfList(v.items, 1)
       ELSE IF v.k = "dict" THEN OfDict(v.items, 1)
       ELSE <<>>

\* C9: the key warnings of a call are one coercion per key that is no str
\* after an Enum is unwrapped plus one duplicate per key whose stringified
\* form an earlier key has, a key's coercion before its duplicate, none for
\* an Enum whose value is a str; and the call still returns the whole output.
C9_WarningsPerKey ==
    Done =>
       /\ SelectSeq(warned, LAMBDA w : w.kind \in {"convert", "duplicate"}) = KeyWarnings(arg)
       /\ Len(built) > 0
       /\ WhitespaceOnly(formatter.prefix_string) => json_loads(result) = Meaning(arg)

\* the dict with a str Enum key, an int Enum key, "1" and 1 has been built:
\* coercion, duplicate, coercion and duplicate
C9_Witness ==
    /\ Done
    /\ arg = Dict_enum_keys
    /\ Len(warned) = 4
    /\ warned[3].kind = "convert"
    /\ warned[4].kind = "duplicate"

\* C10 (as stated): the call returned what a freshly constructed Formatter
\* with the same configuration returns for the same value.
C10_SameAsFreshFormatter ==
    Done => result = serialize_body(init_internals(formatter), <<>>, arg).value

\* C11 (as stated): serialize is total: every call that was entered with a
\* well-formed value returns a text; none ends with an error raised.
C11_SerializeNeverRaises == pc # "raised"

\* the text without the spaces around it
Trim(s) ==
    LET at == {i \in 1..Len(s) : s[i] # " "}
    IN IF at = {} THEN <<>>
       ELSE SubSeq(s, MinOf(at), CHOOSE i \in at : \A j \in at : i >= j)

\* the pieces of a text between its commas (of a text without strings)
SplitCommas(s) ==
    LET cuts == <<0>> \o SelectSeq([i \in 1..Len(s) |-> i], LAMBDA i : s[i] = ",")
                 \o <<Len(s) + 1>>
    IN [n \in 1..(Len(cuts) - 1) |-> SubSeq(s, cuts[n] + 1, cuts[n + 1] - 1)]

\* the cells of a table row in the order of its text: what stands between
\* "[ " and " ]" or "{ " and " }", cut at the commas; of a dict row the name
\* before the colon and the text after the colon and its padding
RowCells(row) ==
    LET parts == SplitCommas(SubSeq(row.value, 3, Len(row.value) - 2))
        colon(n) == IndexOf(parts[n], ":")
    IN [n \in 1..Len(parts) |->
          IF colon(n) # 0
          THEN [name |-> Trim(SubSeq(parts[n], 1, colon(n) - 1)),
                text |-> SubSeq(parts[n], colon(n) + Len(formatter.padded_colon_str),
                                Len(parts[n]))]
          ELSE [name |-> <<>>, text |-> parts[n]]]

IsNumber(v) == v.k \in {"int", "float"}

\* the value and the column of the c-th element of a row
CellVal(row, c) == IF row.k = "dict" THEN row.items[c].val ELSE row.items[c]
CellKey(row, c) == IF row.k = "dict" THEN KeyText(row.items[c].key) ELSE c

\* a list or dict whose elements are all null, bool, int or float
PlainRow(v) ==
    /\ v.k \in {"list", "dict"}
    /\ v.items # <<>>
    /\ \A c \in 1..Len(v.items) : CellVal(v, c).k \in {"null", "bool", "int", "float"}

\* every cell of the column is a number
NumericColumn(rows, key) ==
    \A i \in 1..Len(rows) : \A c \in 1..Len(rows[i].items) :
       CellKey(rows[i], c) = key => IsNumber(CellVal(rows[i], c))

\* the number of columns of a table with these rows
Columns(rows) ==
    Cardinality(UNION {{CellKey(rows[i], c) : c \in 1..Len(rows[i].items)} :
                          i \in 1..Len(rows)})

\* the pairs <<rendered text, literal>> of the numbers of the value serialized
\* that justify_parallel_numbers or a numeric table column has re-rendered:
\* the numbers of a root list that is not inline, and the numbers in the
\* numeric columns of a root list that was laid out as a table (of the rows
\* that fill every column, so that no padding for a missing cell follows)
RenderedNumbers ==
    IF arg.k # "list" \/ Root.format = "INLINE" \/ formatter.dont_justify_numbers THEN {}
    ELSE {<<Root.children[i].value, arg.items[i].lit>> :
             i \in {j \in 1..Len(arg.items) : IsNumber(arg.items[j])}}
         \cup UNION {
             LET row == arg.items[i]
                 cells == RowCells(Root.children[i])
                 of(n, c) == IF row.k = "dict"
                             THEN cells[n].name = dumps_str(CellKey(row, c))
                             ELSE n = c
             IN {<<cells[x[1]].text, CellVal(row, x[2]).lit>> :
                    x \in {y \in (1..Len(cells)) \X (1..Len(row.items)) :
                             /\ of(y[1], y[2])
                             /\ NumericColumn(arg.items, CellKey(row, y[2]))}} :
             i \in {j \in 1..Len(arg.items) :
                      /\ \A r \in 1..Len(arg.items) : PlainRow(arg.items[r])
                      /\ Root.children[j].format = "INLINE_TABULAR"
                      /\ Len(Root.children[j].children) = Len(arg.items[j].items)
                      /\ Len(arg.items[j].items) = Columns(arg.items)} }

\* text is lit, or lit with zeros after its decimal point, or lit with a
\* decimal point and zeros after it
ZerosAppended(text, lit) ==
    /\ Len(text) >= Len(lit)
    /\ SubSeq(text, 1, Len(lit)) = lit
    /\ LET rest == SubSeq(text, Len(lit) + 1, Len(text))
           zeros(z) == \A i \in 1..Len(z) : z[i] = "0"
       IN \/ rest = <<>>
          \/ Contains(lit, ".") /\ zeros(rest)
          \/ ~Contains(lit, ".") /\ Len(rest) >= 2 /\ Head(rest) = "." /\ zeros(Tail(rest))

\* the rendered number has the numeric value of the literal
SameNumber(text, lit) == NumValue(Trim(text)).ok /\ NumValue(Trim(text)) = NumValue(lit)

\* C12 (as stated): a justified number keeps its numeric value, and its text
\* is the literal with only leading spaces added and, in a float column, a
\* decimal point and zeros appended; a literal with an exponent is unchanged.
C12_JustifiedTextIsLiteralPadded ==
    Done => \A p \in RenderedNumbers :
               /\ SameNumber(p[1], p[2])
               /\ IF Contains(p[2], "e") THEN Trim(p[1]) = p[2]
                  ELSE ZerosAppended(Trim(p[1]), p[2])
               /\ \E n \in 0..Len(p[1]) : p[1] = Repeat(<<" ">>, n) \o Trim(p[1])

\* the indices at which the physical lines of a text start
LineStarts(text) ==
    IF text = <<>> THEN {} ELSE {1} \cup {i + 1 : i \in {j \in 1..Len(text) : text[j] = "\n"}}

\* position i lies inside a string literal: an odd number of quotes open before it
InString(text, i) ==
    Cardinality({j \in 1..(i - 1) : text[j] = "\"" /\ ~Escaped(text, 1, j)}) % 2 = 1

\* the lists and dicts that are open just before position i
OpenAt(text, i) ==
    Cardinality({j \in 1..(i - 1) : text[j] \in {"[", "{"} /\ ~InString(text, j)})
    - Cardinality({j \in 1..(i - 1) : text[j] \in {"]", "}"} /\ ~InString(text, j)})

\* where the element or closing bracket of a line begins, given where the
\* white space before it begins
FirstOfLine(text, after) ==
    MinOf({j \in after..Len(text) : text[j] \notin {" ", "\t"}} \cup {Len(text) + 1})

\* the depth of the line that starts at s: that of the element or closing
\* bracket it begins with
LineDepth(text, s, first) ==
    OpenAt(text, s) - (IF first <= Len(text) /\ text[first] \in {"]", "}"} THEN 1 ELSE 0)

\* the indent unit the configuration asks for
IndentUnit(self) ==
    IF self.use_tab_to_indent THEN <<"\t">> ELSE Repeat(<<" ">>, self.indent_spaces)

\* the line of text that starts at s begins with the prefix, once, and the
\* indentation of its depth; what follows is the line's first element or
\* closing bracket, or the spaces that right-align a justified number
LineStartsAsConfigured(self, text, s) ==
    LET after == s + Len(self.prefix_string)
        first == FirstOfLine(text, after)
        want == self.prefix_string \o Repeat(IndentUnit(self), LineDepth(text, s, first))
    IN /\ StartsWith(text, s, want)
       /\ first <= Len(text)
       /\ text[first] \notin {"\r", "\n"}
       /\ (~IsDigit(text[first]) /\ text[first] # "-") => first = s + Len(want)
       /\ ~WhitespaceOnly(self.prefix_string)
             => \A j \in after..first : ~StartsWith(text, j, self.prefix_string)

\* C13 (as stated): every physical line of the returned text, the first one
\* and those inside multi-line children included, begins with prefix_string,
\* once, followed by the indent unit (a tab with use_tab_to_indent, otherwise
\* indent_spaces spaces) repeated as often as the line is deep.
C13_LinesStartWithPrefixAndIndent ==
    Done => \A s \in LineStarts(result) : LineStartsAsConfigured(formatter, result, s)

\* C14 (as stated): with json_eol_style = CRLF every line break of the
\* returned text is CR LF, and with LF the text holds no CR, under every other
\* setting, omit_trailing_whitespace included.
C14_EolStyleUniform ==
    Done => IF formatter.json_eol_style = "CRLF"
            THEN \A i \in 1..Len(result) :
                    result[i] = "\n" => (i > 1 /\ result[i - 1] = "\r")
            ELSE \A i \in 1..Len(result) : result[i] # "\r"

\* C15: with table_dict_minimum_similarity > 100 no dict is laid out as the
\* row of a table, in a list or in a dict, and with
\* table_list_minimum_similarity > 100 no list is; the call returns all the same.
C15_SimilarityOver100DisablesTables ==
    Done => /\ Len(built) > 0
            /\ \A n \in FinalNodes :
                  n.format = "INLINE_TABULAR"
                     => /\ n.kind = "DICT" => formatter.table_dict_minimum_similarity <= 100
                        /\ n.kind = "LIST" => formatter.table_list_minimum_similarity <= 100

List_of_dicts == VList(<<VDict(<<Prop(KeyA, VNull), Prop(KeyB, Int1)>>),
                         VDict(<<Prop(KeyA, Int2), Prop(KeyB, Int3)>>)>>)

\* a list of dicts that the same call lays out as a table when the threshold
\* is 75 (another text) has been serialized with the threshold at 101, and no
\* child is a row
C15_Witness ==
    /\ Done
    /\ arg = List_of_dicts
    /\ formatter.table_dict_minimum_similarity = 101
    /\ \A i \in 1..Len(Root.children) : Root.children[i].format = "INLINE"
    /\ serialize_body([formatter EXCEPT !.table_dict_minimum_similarity = 75],
                      formatter.indent_cache, arg).value # result

\* the property names of a dict, as the keys are written
Names(value) == {KeyText(value.items[i].key) : i \in 1..Len(value.items)}

\* a list of two or more non-empty dicts, no property name in two of them
DisjointDicts(value) ==
    /\ value.k = "list"
    /\ Len(value.items) >= 2
    /\ \A i \in 1..Len(value.items) :
          /\ value.items[i].k = "dict"
          /\ Len(value.items[i].items) > 0
    /\ \A i, j \in 1..Len(value.items) :
          i # j => Names(value.items[i]) \cap Names(value.items[j]) = {}

\* C16: dicts with no property name in common score 0, so under a threshold
\* above 0 they are never laid out as the rows of a table.
C16_DisjointDictsNeverTable ==
    Done /\ DisjointDicts(arg) /\ formatter.table_dict_minimum_similarity > 0
       => \A i \in 1..Len(Root.children) : Root.children[i].format # "INLINE_TABULAR"

\* the text of an inlined list or dict has a space after its opening bracket
BracketPadded(n) == n.value[2] = " "

\* one of the elements of the node is a list or a dict, empty ones included
ContainsContainer(n) ==
    \E i \in 1..Len(n.children) : n.children[i].kind \in {"LIST", "DICT"}

\* C17: an inlined list or dict that contains a list or a dict, empty ones
\* included, has spaces inside its brackets exactly when nested_bracket_padding
\* is set, and one that contains none exactly when simple_bracket_padding is.
C17_BracketPaddingByContents ==
    Done => \A n \in FinalNodes :
               NonEmptyContainer(n) /\ n.format = "INLINE"
                  => (BracketPadded(n) <=>
                         IF ContainsContainer(n) THEN formatter.nested_bracket_padding
                         ELSE formatter.simple_bracket_padding)

\* the largest complexity among the children of a node
ChildComplexity(n) ==
    CHOOSE c \in {n.children[j].complexity : j \in 1..Len(n.children)} :
       \A j \in 1..Len(n.children) : n.children[j].complexity <= c

\* the child, as its parent holds it when the parent is done, has the kind,
\* complexity and depth of a node that format_element returned before
AsBuilt(i, child) ==
    \E k \in 1..(i - 1) : /\ built[k].kind = child.kind
                          /\ built[k].complexity = child.complexity
                          /\ built[k].depth = child.depth

\* C18: a primitive and an empty list or dict have complexity 0, any other
\* node 1 + the largest complexity of its children; the root has depth 0 and a
\* child the depth of its parent + 1; no later step of the layout changes the
\* complexity or the depth a node was given when it was built.
C18_ComplexityAndDepth ==
    Done => /\ Root.depth = 0
            /\ \A i \in DOMAIN built :
                  /\ built[i].kind \notin {"LIST", "DICT"} => built[i].complexity = 0
                  /\ Len(built[i].children) = 0 /\ built[i].format = "INLINE"
                        => built[i].complexity = 0
                  /\ Len(built[i].children) > 0
                        => /\ built[i].complexity = 1 + ChildComplexity(built[i])
                           /\ \A j \in 1..Len(built[i].children) :
                                 /\ built[i].children[j].depth = built[i].depth + 1
                                 /\ AsBuilt(i, built[i].children[j])

\* [[[1, 2.5, 10], "a \"b\\"], {}, []] has been laid out over several lines:
\* complexity 3 at depth 0 over 2 at depth 1 over 1 at depth 2, the empty dict
\* and list at complexity 0
C18_Witness ==
    /\ Done
    /\ Root.complexity = 3
    /\ Root.format # "INLINE"
    /\ Len(Root.children) = 3
    /\ Root.children[1].complexity = 2
    /\ Root.children[2].complexity = 0 /\ Root.children[2].kind = "DICT"
    /\ \E i \in DOMAIN built : built[i].depth = 2 /\ built[i].complexity = 1

\* what --always-expand-depth asks for: -1 none, 0 the root, 1 the root and
\* its children
ExpandDepth(choice) ==
    CASE choice = "never" -> -1 [] choice = "root" -> 0 [] choice = "children" -> 1

\* C19: the Formatter main() formats the inputs with has every field as the
\* flags ask: always_expand_depth as --always-expand-depth, the two table
\* similarities as --table-dict-minimum-similarity and
\* --table-list-minimum-similarity, dont_justify_numbers the negation of
\* --justify-numbers, and so on for every other field.
C19_FlagsControlEveryField ==
    args # NoArgs =>
       /\ formatter.always_expand_depth = ExpandDepth(args.always_expand_depth)
       /\ formatter.table_dict_minimum_similarity = args.table_dict_minimum_similarity
       /\ formatter.table_list_minimum_similarity = args.table_list_minimum_similarity
       /\ formatter.dont_justify_numbers = ~args.justify_numbers
       /\ formatter.align_expanded_property_names
             = (args.align_expanded_property_names \/ args.align_properties)
       /\ formatter.comma_padding = args.comma_padding
       /\ formatter.colon_padding = args.colon_padding
       /\ formatter.max_inline_length = args.max_inline_length
       /\ formatter.max_inline_complexity = args.max_inline_complexity
       /\ formatter.max_compact_list_complexity = args.max_compact_list_complexity
       /\ formatter.multiline_compact_dict = args.multiline_compact_dict
       /\ formatter.indent_spaces = args.indent
       /\ formatter.use_tab_to_indent = args.tab_indent
       /\ formatter.json_eol_style = (IF args.crlf THEN "CRLF" ELSE "LF")
       /\ formatter.nested_bracket_padding = (args.bracket_padding = "nested")
       /\ formatter.simple_bracket_padding = (args.bracket_padding = "simple")
       /\ formatter.prefix_string
             = (IF args.prefix_string = None THEN <<>> ELSE args.prefix_string)
       /\ formatter.omit_trailing_whitespace = args.omit_trailing_whitespace

\* the elements of a list, the property values of a dict
ChildValues(value) ==
    IF value.k = "list" THEN value.items
    ELSE IF value.k = "dict" THEN [i \in 1..Len(value.items) |-> value.items[i].val]
    ELSE <<>>

\* the number of nodes format_element returns on behalf of a value: one for
\* the value and those of its elements
RECURSIVE LogSize(_)
RECURSIVE SumLogSize(_, _)
SumLogSize(values, i) ==
    IF i > Len(values) THEN 0 ELSE LogSize(values[i]) + SumLogSize(values, i + 1)
LogSize(value) == 1 + SumLogSize(ChildValues(value), 1)

\* where in `built` the node of element j stands, the node of the value
\* standing at e: a node is returned after those of its elements
ChildEnd(value, e, j) == e - 1 - SumLogSize(ChildValues(value), j + 1)

\* every value of the input with the place of its node in `built`
RECURSIVE LoggedNodes(_, _)
LoggedNodes(value, e) ==
    {<<value, e>>} \cup
    UNION {LoggedNodes(ChildValues(value)[j], ChildEnd(value, e, j)) :
              j \in 1..Len(ChildValues(value))}

\* the elements whose nodes are the children: all those of a list, of a dict
\* for every distinct key the last entry that has it
KeptElements(value) ==
    IF value.k = "dict"
    THEN [n \in 1..Len(FirstOccurrences(value.items)) |->
             LastOccurrence(value.items, FirstOccurrences(value.items)[n])]
    ELSE [n \in 1..Len(value.items) |-> n]

RECURSIVE SumOver(_, _)
SumOver(lengths, i) ==
    IF i > Len(lengths) THEN 0 ELSE lengths[i] + SumOver(lengths, i + 1)

\* the width of the one line the value at e would take: the brackets, their
\* padding, the children as format_element returned them, the separators and,
\* in a dict, the property names and colons
InlineWidth(value, e) ==
    LET kept == KeptElements(value)
        n == Len(kept)
        padded == IF built[e].complexity >= 2 THEN formatter.nested_bracket_padding
                  ELSE formatter.simple_bracket_padding
    IN 2 + (IF padded THEN 2 ELSE 0)
       + SumOver([c \in 1..n |-> built[ChildEnd(value, e, kept[c])].value_length], 1)
       + (n - 1) * Len(formatter.padded_comma_str)
       + (IF value.k = "dict"
          THEN n * Len(formatter.padded_colon_str)
               + SumOver([c \in 1..n |->
                            Len(dumps_str(KeyText(value.items[kept[c]].key)))], 1)
          ELSE 0)

InlineConditions(value, e) ==
    /\ built[e].depth > formatter.always_expand_depth
    /\ built[e].complexity <= formatter.max_inline_complexity
    /\ \A c \in 1..Len(built[e].children) :
          built[e].children[c].format \in {"INLINE", "INLINE_TABULAR"}
    /\ InlineWidth(value, e) <= formatter.max_inline_length

List_of_lists == VList(<<VList(<<Int1, Float2_5>>), VList(<<Int10>>), VList(<<>>)>>)

ReturnedChildren(value, e) ==
    [c \in 1..Len(KeptElements(value)) |-> built[ChildEnd(value, e, KeptElements(value)[c])]]

\* the cells present in the rows, and the columns they fill: the distinct
\* property names of dict rows, the positions of the longest list row
CellsPresent(rows) == SumOver([c \in 1..Len(rows) |-> Len(rows[c].children)], 1)

DictColumns(rows) ==
    Cardinality(UNION {{rows[c].children[p].name : p \in 1..Len(rows[c].children)} :
                          c \in 1..Len(rows)})

ListColumns(rows) ==
    CHOOSE n \in {Len(rows[c].children) : c \in 1..Len(rows)} :
       \A c \in 1..Len(rows) : Len(rows[c].children) <= n

\* the children qualify as the rows of a table of dicts
DictTable(rows) ==
    /\ Len(rows) >= 2
    /\ \A c \in 1..Len(rows) : rows[c].kind = "DICT" /\ rows[c].format = "INLINE"
    /\ DictColumns(rows) >= 1
    /\ formatter.table_dict_minimum_similarity <= 100
    /\ 100 * CellsPresent(rows)
          >= formatter.table_dict_minimum_similarity * DictColumns(rows) * Len(rows)
    /\ LET cols == property_stats_rows(formatter, <<>>, rows, 1)
       IN 4 + SumPropNameLength(cols) + Len(cols) * Len(formatter.padded_colon_str)
            + SumMaxValueSize(cols) + (Len(cols) - 1) * Len(formatter.padded_comma_str)
          <= formatter.max_inline_length

\* the children qualify as the rows of a table of lists
ListTable(rows) ==
    /\ Len(rows) >= 2
    /\ \A c \in 1..Len(rows) : rows[c].kind = "LIST" /\ rows[c].format = "INLINE"
    /\ ListColumns(rows) >= 1
    /\ formatter.table_list_minimum_similarity <= 100
    /\ 100 * CellsPresent(rows)
          >= formatter.table_list_minimum_similarity * ListColumns(rows) * Len(rows)
    /\ LET cols == list_stats_rows([i \in 1..ListColumns(rows) |->
                                      ColumnStats(formatter.dont_justify_numbers)],
                                   rows, 1)
       IN 4 + SumMaxValueSize(cols) + (Len(cols) - 1) * Len(formatter.padded_comma_str)
          <= formatter.max_inline_length

C22_CompactIffEligible ==
    Done => \A i \in DOMAIN built :
               NonEmptyContainer(built[i]) /\ built[i].format # "INLINE"
                  => /\ built[i].format \in {"MULTILINE_COMPACT", "EXPANDED"}
                     /\ built[i].format = "MULTILINE_COMPACT"
                           <=> /\ built[i].depth > formatter.always_expand_depth
                               /\ built[i].complexity <= formatter.max_compact_list_complexity
                               /\ built[i].kind = "DICT" => formatter.multiline_compact_dict

\* a list whose children are the rows of a table is MultilineCompact, its
\* complexity 2 allowed by max_compact_list_complexity = 2
C22_Witness ==
    /\ Done
    /\ Root.kind = "LIST"
    /\ Root.complexity = 2
    /\ formatter.max_compact_list_complexity = 2
    /\ Root.format = "MULTILINE_COMPACT"
    /\ \A c \in 1..Len(Root.children) : Root.children[c].format = "INLINE_TABULAR"

\* a MultilineCompact node all of whose children are Inline or InlineTabular
CompactOfInline(n) ==
    /\ n.format = "MULTILINE_COMPACT"
    /\ \A c \in 1..Len(n.children) : IsInline(n.children[c].format)

\* the width child c takes on its line without the separator after it: its
\* value and, in a dict, its name and the colon
ChildWidth(n, c) ==
    n.children[c].value_length
    + (IF n.kind = "DICT" THEN n.children[c].name_length + Len(formatter.padded_colon_str)
       ELSE 0)

\* the text child c takes on its line, the separator after it included
ChildText(n, c) ==
    (IF n.kind = "DICT"
     THEN n.children[c].name
          \o Repeat(<<" ">>, n.children[c].name_length - Len(n.children[c].name))
          \o formatter.padded_colon_str
     ELSE <<>>)
    \o n.children[c].value
    \o (IF c < Len(n.children) THEN formatter.padded_comma_str ELSE <<>>)

\* the width of the current line, every child on it with its separator, once
\* child c has been placed; a line is broken before child c when that line
\* and the child with its separator would exceed max_inline_length + slack
RECURSIVE LineAfter(_, _, _)
BreakBefore(n, c, slack) ==
    /\ c > 1
    /\ LineAfter(n, c - 1, slack) + ChildWidth(n, c) + Len(formatter.padded_comma_str)
          > formatter.max_inline_length + slack
LineAfter(n, c, slack) ==
    IF c = 0 THEN 0
    ELSE (IF BreakBefore(n, c, slack) THEN 0 ELSE LineAfter(n, c - 1, slack))
         + ChildWidth(n, c) + Len(formatter.padded_comma_str)

\* the line break and the indentation of a line at a depth
NewLine(depth) ==
    formatter.eol_str \o formatter.prefix_string \o formatter.indent_cache[depth]

\* the text of the node when its lines are broken under the rule with slack
RECURSIVE CompactChildren(_, _, _)
CompactChildren(n, c, slack) ==
    IF c > Len(n.children) THEN <<>>
    ELSE (IF BreakBefore(n, c, slack) THEN NewLine(n.depth + 1) ELSE <<>>)
         \o ChildText(n, c) \o CompactChildren(n, c + 1, slack)

CompactText(n, slack) ==
    (IF n.kind = "DICT" THEN <<"{">> ELSE <<"[">>)
    \o NewLine(n.depth + 1) \o CompactChildren(n, 1, slack) \o NewLine(n.depth)
    \o (IF n.kind = "DICT" THEN <<"}">> ELSE <<"]">>)

\* the widest line of the node that holds two or more children, each child
\* counted with the separator after it unless `last` leaves out the one that
\* ends the line
EndsLine(n, c, slack) == c = Len(n.children) \/ BreakBefore(n, c + 1, slack)

LinesWithin(n, slack, last) ==
    \A c \in 2..Len(n.children) :
       EndsLine(n, c, slack) /\ ~BreakBefore(n, c, slack)
          => LineAfter(n, c, slack)
                - (IF last \/ c = Len(n.children)
                   THEN Len(formatter.padded_comma_str) ELSE 0)
             <= formatter.max_inline_length

\* C23 (as stated): in a MultilineCompact container of Inline children a line
\* is broken before a child exactly when the current line and that child with
\* its separator would exceed max_inline_length, so that no line of two or
\* more children, their separators counted, is wider than max_inline_length.
C23_BreakWhenChildAndSeparatorExceed ==
    Done => \A i \in DOMAIN built :
               CompactOfInline(built[i])
                  => /\ built[i].value = CompactText(built[i], 0)
                     /\ LinesWithin(built[i], Len(formatter.padded_comma_str), FALSE)

\* C23 (amended): the line is broken before a child exactly when the current
\* line and that child without its separator would exceed max_inline_length,
\* so that no line of two or more children is wider than max_inline_length
\* once the separator that ends it is left out.
C23_BreakWhenChildExceeds ==
    Done => \A i \in DOMAIN built :
               CompactOfInline(built[i])
                  => /\ built[i].value
                           = CompactText(built[i], Len(formatter.padded_comma_str))
                     /\ LinesWithin(built[i], Len(formatter.padded_comma_str), TRUE)

\* [1, 2.5, 10] with max_inline_length = 10: ' 1.0,  2.5, ' holds two
\* children, 10 wide without the separator that ends it and 12 with it, and
\* the line is broken before the third child only
C23_Witness ==
    /\ Done
    /\ arg = List_1_2p5_10
    /\ formatter.max_inline_length = 10
    /\ formatter.comma_padding
    /\ CompactOfInline(Root)
    /\ ~BreakBefore(Root, 2, Len(formatter.padded_comma_str))
    /\ BreakBefore(Root, 2, 0)
    /\ BreakBefore(Root, 3, Len(formatter.padded_comma_str))
    /\ LineAfter(Root, 2, Len(formatter.padded_comma_str)) = 12

\* the text `sub` stands somewhere in `text`
Occurs(sub, text) ==
    \E p \in 1..(Len(text) - Len(sub) + 1) : SubSeq(text, p, p + Len(sub) - 1) = sub

\* children c - 1 and c of the node stand on one line: the separator after the
\* text of the one is followed at once by the text of the other
ShareLine(n, c) == Occurs(ChildText(n, c - 1) \o ChildText(n, c), n.value)

\* C24 (as stated): in a MultilineCompact container a child that is
\* MultilineCompact or Expanded has a line break before it and after it,
\* whatever the format of the sibling next to it.
C24_NonInlineChildOnOwnLines ==
    Done => \A i \in DOMAIN built :
               built[i].format = "MULTILINE_COMPACT"
                  => \A c \in 2..Len(built[i].children) :
                        (~IsInline(built[i].children[c].format)
                            \/ ~IsInline(built[i].children[c - 1].format))
                           => ~ShareLine(built[i], c)

\* C24 (amended): in a MultilineCompact container there is a line break
\* between a child that is MultilineCompact or Expanded and a sibling next to
\* it that is Inline or InlineTabular; two such children next to each other
\* share a line, the last of the one and the first of the other.
C24_BreakBetweenInlineAndNonInline ==
    Done => \A i \in DOMAIN built :
               built[i].format = "MULTILINE_COMPACT"
                  => \A c \in 2..Len(built[i].children) :
                        /\ IsInline(built[i].children[c].format)
                              # IsInline(built[i].children[c - 1].format)
                           => ~ShareLine(built[i], c)
                        /\ (~IsInline(built[i].children[c].format)
                               /\ ~IsInline(built[i].children[c - 1].format))
                           => ShareLine(built[i], c)

\* [{"a": null, "b": 1}, {"a": 2, "b": 3}] with max_inline_length = 10 and
\* max_compact_list_complexity = 2: the two dicts are Expanded, the list is
\* MultilineCompact and '}, {' is one of its lines
C24_Witness ==
    /\ Done
    /\ arg = List_of_dicts
    /\ Root.format = "MULTILINE_COMPACT"
    /\ Root.children[1].format = "EXPANDED"
    /\ Root.children[2].format = "EXPANDED"
    /\ Occurs(NewLine(1) \o <<"}", ",", " ", "{">> \o NewLine(2), result)

UnifiedKind(kinds) ==
    IF Cardinality(kinds) = 1 THEN CHOOSE k \in kinds : TRUE
    ELSE IF kinds = {"INT", "FLOAT"} THEN "FLOAT"
    ELSE "UNDEFINED"

\* C26: the kind ColumnStats.update leaves in a column after the elements of
\* a list that is not Inline is the common kind of the cells, FLOAT when they
\* are integers and floats, and UNDEFINED when they disagree in another way,
\* a null with a number included, in whatever order the cells came; the
\* elements are re-rendered as numbers only when all of them are numbers.
C26_UnifiedKindOrderIndependent ==
    Done => \A x \in LoggedNodes(arg, Len(built)) :
               LET node == built[x[2]]
                   cells == ReturnedChildren(x[1], x[2])
                   stats == update_all(ColumnStats(formatter.dont_justify_numbers), cells, 1)
               IN (node.kind = "LIST" /\ Len(cells) >= 2 /\ node.format # "INLINE"
                      /\ ~formatter.dont_justify_numbers)
                     => /\ stats.kind = UnifiedKind({cells[c].kind : c \in 1..Len(cells)})
                        /\ stats.kind \in {"INT", "FLOAT"}
                              => \A c \in 1..Len(cells) : cells[c].kind \in {"INT", "FLOAT"}

\* the cells of the rows do not all take the width of their column
RaggedListColumns(rows) ==
    LET cols == list_stats_rows([i \in 1..ListColumns(rows) |->
                                   ColumnStats(formatter.dont_justify_numbers)], rows, 1)
    IN \E r \in 1..Len(rows) : \E c \in 1..Len(rows[r].children) :
          Len(format_value(cols[c], rows[r].children[c].value,
                           rows[r].children[c].value_length).v) # max_value_size(cols[c])

RaggedDictColumns(rows) ==
    LET cols == property_stats_rows(formatter, <<>>, rows, 1)
    IN \E r \in 1..Len(rows) : \E c \in 1..Len(rows[r].children) :
          LET col == cols[FindColumn(cols, rows[r].children[c].name, 1)]
          IN Len(format_value(col, rows[r].children[c].value,
                              rows[r].children[c].value_length).v) # max_value_size(col)

\* C27: the width recorded in a primitive, an Inline container, a justified
\* number or an InlineTabular row is the width of its text, and every cell
\* format_value renders for a column of a table is max_value_size wide.
C27_RecordedWidthIsTextWidth ==
    Done => /\ \A i \in DOMAIN built :
                  /\ IsInline(built[i].format) => built[i].value_length = Len(built[i].value)
                  /\ \A c \in 1..Len(built[i].children) :
                        IsInline(built[i].children[c].format)
                           => built[i].children[c].value_length
                                 = Len(built[i].children[c].value)
            /\ \A x \in LoggedNodes(arg, Len(built)) :
                  NonEmptyContainer(built[x[2]]) /\ built[x[2]].format # "INLINE"
                     => /\ ListTable(ReturnedChildren(x[1], x[2]))
                              => ~RaggedListColumns(ReturnedChildren(x[1], x[2]))
                        /\ DictTable(ReturnedChildren(x[1], x[2]))
                              => ~RaggedDictColumns(ReturnedChildren(x[1], x[2]))

\* how many brackets are open at position p of the text of a list or dict
\* (no string of the model holds a bracket)
BracketDepth(text, p) ==
    Cardinality({i \in 1..(p - 1) : text[i] \in {"[", "{"}})
    - Cardinality({i \in 1..(p - 1) : text[i] \in {"]", "}"}})

\* where in the text of a dict the property with this name stands: the name,
\* one bracket open before it, a colon the next thing after it
KeyPositions(text, name) ==
    {p \in 1..(Len(text) - Len(name)) :
        /\ SubSeq(text, p, p + Len(name) - 1) = name
        /\ BracketDepth(text, p) = 1
        /\ \E q \in (p + Len(name))..Len(text) :
              /\ text[q] = ":"
              /\ \A r \in (p + Len(name))..(q - 1) : text[r] = " "}

KeyPosition(text, name) ==
    CHOOSE p \in KeyPositions(text, name) : \A q \in KeyPositions(text, name) : p <= q

\* the text lists the properties, each of them, in the order of the nodes
PropertiesInOrder(props, text) ==
    /\ \A c \in 1..Len(props) : KeyPositions(text, props[c].name) # {}
    /\ \A c \in 1..Len(props) : \A d \in (c + 1)..Len(props) :
          KeyPosition(text, props[c].name) < KeyPosition(text, props[d].name)

\* C28 (as stated): the text of every dict lists its properties in the order
\* of the input mapping, as format_element returns it and as its parent
\* leaves it, a row of a table included.
C28_PropertiesInInputOrder ==
    Done => \A x \in LoggedNodes(arg, Len(built)) :
               /\ built[x[2]].kind = "DICT"
                     => PropertiesInOrder(built[x[2]].children, built[x[2]].value)
               /\ \A c \in 1..Len(built[x[2]].children) :
                     built[x[2]].children[c].kind = "DICT"
                        => PropertiesInOrder(ReturnedChildren(x[1], x[2])[c].children,
                                             built[x[2]].children[c].value)

\* column a stands before column b: its average index in the rows is the
\* smaller one or, of two equal, it appeared first
ColumnBefore(cols, a, b) ==
    LET ia == FindColumn(cols, a, 1)
        ib == FindColumn(cols, b, 1)
    IN \/ cols[ia].order_sum * cols[ib].count < cols[ib].order_sum * cols[ia].count
       \/ /\ cols[ia].order_sum * cols[ib].count = cols[ib].order_sum * cols[ia].count
          /\ ia < ib

\* the text of a row lists the properties of the row in the order of the columns
PropertiesInColumnOrder(rows, props, text) ==
    /\ \A c \in 1..Len(props) : KeyPositions(text, props[c].name) # {}
    /\ \A c \in 1..Len(props) : \A d \in 1..Len(props) :
          ColumnBefore(property_stats_rows(formatter, <<>>, rows, 1),
                       props[c].name, props[d].name)
             => KeyPosition(text, props[c].name) < KeyPosition(text, props[d].name)

\* C28 (amended): the text of every dict lists its properties in the order of
\* the input mapping, except that a dict re-rendered as a row of a table
\* lists them in the order of the columns, by ascending average index and,
\* of equal averages, by first appearance.
C28_PropertiesInInputOrColumnOrder ==
    Done => \A x \in LoggedNodes(arg, Len(built)) :
               /\ built[x[2]].kind = "DICT"
                     => PropertiesInOrder(built[x[2]].children, built[x[2]].value)
               /\ \A c \in 1..Len(built[x[2]].children) :
                     built[x[2]].children[c].kind = "DICT"
                        => IF built[x[2]].children[c].format = "INLINE_TABULAR"
                           THEN PropertiesInColumnOrder(
                                   ReturnedChildren(x[1], x[2]),
                                   ReturnedChildren(x[1], x[2])[c].children,
                                   built[x[2]].children[c].value)
                           ELSE PropertiesInOrder(
                                   ReturnedChildren(x[1], x[2])[c].children,
                                   built[x[2]].children[c].value)

\* {"a": {"a": 1, "b": true}, "b": {"b": false, "a": 2.5}} as a table: the
\* second row, returned as {"b": false, "a": 2.5}, lists "a" before "b"
C28_Witness ==
    /\ Done
    /\ Root.kind = "DICT"
    /\ Len(Root.children) = 2
    /\ Root.children[2].format = "INLINE_TABULAR"
    /\ PropertiesInOrder(ReturnedChildren(arg, Len(built))[2].children,
                         ReturnedChildren(arg, Len(built))[2].value)
    /\ ~PropertiesInOrder(ReturnedChildren(arg, Len(built))[2].children,
                          Root.children[2].value)

\* the nodes the call would have returned with always_expand_depth = -1, the
\* rest of the configuration as it is (a set of one log)
BuiltUnexpanded ==
    {serialize_body([formatter EXCEPT !.always_expand_depth = -1],
                    formatter.indent_cache, arg).st.built}

\* every non-empty container down to always_expand_depth is Expanded, each
\* child on a line of its own
ExpandedDownToDepth ==
    \A i \in DOMAIN built :
       NonEmptyContainer(built[i]) /\ built[i].depth <= formatter.always_expand_depth
          => /\ built[i].format = "EXPANDED"
             /\ \A c \in 2..Len(built[i].children) : ~ShareLine(built[i], c)

SameFormatAndText(a, b) == a.format = b.format /\ a.value = b.value

\* the nodes deeper than always_expand_depth are returned as in the other log
ReturnedAlike(other) ==
    \A i \in DOMAIN built :
       built[i].depth > formatter.always_expand_depth
          => SameFormatAndText(built[i], other[i])

\* C29 (as stated): with always_expand_depth = D every non-empty list or dict
\* at depth <= D is Expanded, one child per line, whatever the other settings,
\* and a node deeper than D ends with the format and text it has with D = -1.
C29_ExpandedAndDeeperUnaffected ==
    Done => /\ ExpandedDownToDepth
            /\ \A other \in BuiltUnexpanded :
                  /\ ReturnedAlike(other)
                  /\ \A i \in DOMAIN built : \A c \in 1..Len(built[i].children) :
                        built[i].children[c].depth > formatter.always_expand_depth
                           => SameFormatAndText(built[i].children[c], other[i].children[c])

\* C29 (amended): with always_expand_depth = D every non-empty list or dict
\* at depth <= D is Expanded, one child per line, whatever the other settings;
\* a node deeper than D is returned by format_element with the format and
\* text it has with D = -1, and its parent, if deeper than D too, leaves it
\* with the format and text it has with D = -1.
C29_ExpandedAndDeeperReturnedAlike ==
    Done => /\ ExpandedDownToDepth
            /\ \A other \in BuiltUnexpanded :
                  /\ ReturnedAlike(other)
                  /\ \A i \in DOMAIN built : \A c \in 1..Len(built[i].children) :
                        built[i].depth > formatter.always_expand_depth
                           => SameFormatAndText(built[i].children[c], other[i].children[c])

\* always_expand_depth = 0 and a root that would be one line without it: the
\* root is Expanded and its children, at depth 1, are the rows of a table,
\* Inline lists or dicts without it
C29_Witness ==
    /\ Done
    /\ formatter.always_expand_depth = 0
    /\ Root.format = "EXPANDED"
    /\ Len(Root.children) >= 2
    /\ \E other \in BuiltUnexpanded :
          /\ other[Len(built)].format = "INLINE"
          /\ \A c \in 1..Len(Root.children) :
                /\ Root.children[c].format = "INLINE_TABULAR"
                /\ other[Len(built)].children[c].format = "INLINE"
                /\ Root.children[c].value # other[Len(built)].children[c].value

\* every key of every dict of the value is a str, no two of one dict equal
RECURSIVE StringKeysOnly(_)
StringKeysOnly(v) ==
    IF v.k = "list" THEN \A i \in 1..Len(v.items) : StringKeysOnly(v.items[i])
    ELSE IF v.k = "dict"
    THEN /\ \A i \in 1..Len(v.items) :
               /\ v.items[i].key.t = "str"
               /\ StringKeysOnly(v.items[i].val)
         /\ \A i \in 1..Len(v.items) : \A j \in 1..Len(v.items) :
               i # j => v.items[i].key # v.items[j].key
    ELSE TRUE

\* C30: a call on a value whose dict keys are all strings, no two of one dict
\* equal, emits no warning under any configuration; the warning of the
\* re-quantization fallback in particular is never emitted.
C30_NoWarningForStringKeys ==
    Done /\ StringKeysOnly(arg) => warned = <<>>

====
